---- MODULE Spec2Model ----
(***************************************************************************)
(* Model of cyrus-docker: the persistent state service (StateService), the *)
(* image staleness decision (DockerService.checkImageStatus) and the       *)
(* start / stop command flows (StartCommand, StopCommand) that drive the   *)
(* tunnel, the env file, the image build and the compose stack.            *)
(*                                                                         *)
(* One CLI invocation is one process: Invoke constructs the Application    *)
(* (StateService.load reads the state file), the flow's steps follow one   *)
(* per action, and the process ends with an exit code.  The world (state   *)
(* file, env file, image, container, tunnel processes) outlives it.        *)
(***************************************************************************)
EXTENDS Integers, Sequences, FiniteSets, TLC

VARIABLES
    stateFile,     \* ~/.cyrus-docker/state.json: [kind, data]
    state,         \* StateService.state of the running process
    cmd,           \* command of the current (or last) process, "none" before any
    pc,            \* position of the process in its execute(), "idle" once ended
    opts,          \* StartOptions [detach, build]
    invocations,   \* processes launched so far
    prevCmd,       \* command of the process before the current one
    exitCode,      \* -1 while running / before any, else the process exit code
    outcome,       \* how the last flow ended
    calls,         \* service calls issued by the running process, in order
    entryState,    \* StateService.state right after construction
    ngrokPid,      \* StartCommand.execute local
    tunnelUrl,     \* StartCommand.execute local
    procs,         \* live tunnel processes started by the tool (pids)
    spawned,       \* tunnel processes spawned so far
    containerUp,   \* the compose container is actually running
    envFile,       \* .env.docker: [exists, CYRUS_BASE_URL]
    image,         \* cyrus-ai/cyrus:latest: [exists, label]
    toolsCfg,      \* ~/.cyrus-docker/tools.yml
    imgCheck,      \* last checkImageStatus call: inputs and result
    customDockerfile, \* ~/.cyrus-docker/Dockerfile.custom exists
    builtCfg,      \* tools.yml as it was at the last successful image build
    call           \* a service method run on its own: arguments, position, result

vars == <<stateFile, state, cmd, pc, opts, invocations, prevCmd, exitCode,
          outcome, calls, entryState, ngrokPid, tunnelUrl,
          procs, spawned, containerUp, envFile, image, toolsCfg, imgCheck,
          customDockerfile, builtCfg, call>>

----------------------------------------------------------------------------
(* Bounds of the model *)

\* CLI processes launched in one behaviour
MaxInvocations == 3

----------------------------------------------------------------------------
(* Values *)

\* An optional number / string field that is undefined or missing.  Both are
\* falsy in the source's `if (ngrokPid)` / `if (imageHash)` tests.
NoPid == 0
NoUrl == ""
NoTime == 0
NoDir == ""
NoHash == ""
NoVersion == ""

\* Version of the state schema
STATE_VERSION == "1.0"

\* No image was built yet
NoCfg == "unbuilt"

\* No service method is run on its own
NoCall == [fn |-> "none"]

\* Application.dockerDir, the bundled docker directory
AppDockerDir == "docker"

\* Public URL served by tunnel process p
UrlOf(p) == IF p = 1 THEN "https://t1" ELSE IF p = 2 THEN "https://t2"
            ELSE IF p = 3 THEN "https://t3" ELSE IF p = 4 THEN "https://t4"
            ELSE "https://t5"

Health == {"healthy", "unhealthy", "starting", "none"}

\* Contents of tools.yml: no file, two different configs with tools, a file
\* that resolves to no tools
ToolsCfgs == {"none", "A", "B", "E"}

----------------------------------------------------------------------------
(* Calls that may throw *)

\* How a call ends: with a value, or with an exception
Return(v) == [raised |-> FALSE, value |-> v]

Raise(v) == [raised |-> TRUE, value |-> v]

\* Mutant: no catch clause, the exception leaves the method
catchRethrows(r, v) == r

\* try { ... } catch { return v }
catchReturn(r, v) == IF r.raised THEN Return(v) ELSE r

----------------------------------------------------------------------------
(* StateService *)

getDefaultState ==
    [version |-> STATE_VERSION, isRunning |-> FALSE, ngrokPid |-> NoPid, tunnelUrl |-> NoUrl,
     startedAt |-> NoTime, dockerDir |-> NoDir]

\* What reading a property that is undefined or missing gives
Undefined ==
    [version |-> NoVersion, isRunning |-> FALSE, ngrokPid |-> NoPid, tunnelUrl |-> NoUrl,
     startedAt |-> NoTime, dockerDir |-> NoDir]

\* Mutant: the optional string fields are not written
stringifyNoStrings(s) ==
    [k \in {f \in DOMAIN s : \/ f = "isRunning"
                             \/ f \in {"version", "ngrokPid", "startedAt"}
                                /\ s[f] # Undefined[f]} |-> s[k]]

\* JSON.stringify(this.state, null, 2): the text holds every property whose
\* value is not undefined
stringify(s) ==
    [k \in {f \in DOMAIN s : f = "isRunning" \/ s[f] # Undefined[f]} |-> s[k]]

\* JSON.parse(content) as DockerCLIState: the properties of the text; the
\* others read as undefined
parse(text) ==
    [k \in DOMAIN Undefined |-> IF k \in DOMAIN text THEN text[k] ELSE Undefined[k]]

AbsentFile == [kind |-> "absent", data |-> <<>>]
CorruptFile == [kind |-> "corrupt", data |-> <<>>]
JsonFile(s) == [kind |-> "json", data |-> stringify(s)]

\* The try block of load(): the parsed content when the file exists;
\* JSON.parse throws on a file that does not parse
loadTry(file) ==
    IF file.kind = "json" THEN Return(parse(file.data))
    ELSE IF file.kind = "corrupt" THEN Raise(getDefaultState)
    ELSE Return(getDefaultState)

\* Mutant: load() without its try / catch
loadOutcomeNoCatch(file) == loadTry(file)

\* try { ... } catch { debug }; return this.getDefaultState()
loadOutcome(file) == catchReturn(loadTry(file), getDefaultState)

\* load(): the parsed file content as is when the file exists and parses,
\* the default state otherwise
load(file) == loadOutcome(file).value

\* save(): writeFileSync of the whole state; a failure is caught and logged,
\* and leaves the old file or a truncated one
saveResults(s, file) == {JsonFile(s), file, CorruptFile}

\* update(updates): this.state = {...this.state, ...updates}
update(s, updates) == [k \in DOMAIN s |-> IF k \in DOMAIN updates THEN updates[k] ELSE s[k]]

setRunningUpdates(pid, url, dir, now) ==
    [isRunning |-> TRUE, ngrokPid |-> pid, tunnelUrl |-> url,
     startedAt |-> now, dockerDir |-> dir]

\* Mutant: setStopped only clears the running flag
setStoppedMarksOnly == [isRunning |-> FALSE]

\* Mutant: setStopped leaves the tunnel fields of the last run in place
setStoppedKeepsTunnel == [isRunning |-> FALSE, startedAt |-> NoTime, dockerDir |-> NoDir]

setStoppedUpdates ==
    [isRunning |-> FALSE, ngrokPid |-> NoPid, tunnelUrl |-> NoUrl,
     startedAt |-> NoTime, dockerDir |-> NoDir]

setRunning(s, pid, url, dir, now) == update(s, setRunningUpdates(pid, url, dir, now))

setStopped(s) == update(s, setStoppedUpdates)

----------------------------------------------------------------------------
(* DockerService.checkImageStatus *)

RebuildNotExist == [needsRebuild |-> TRUE, reason |-> "Image does not exist"]
RebuildRemoved == [needsRebuild |-> TRUE, reason |-> "Tools configuration removed"]
UpToDateNoTools == [needsRebuild |-> FALSE, reason |-> "Image up to date (no tools)"]
RebuildMissingLabel == [needsRebuild |-> TRUE, reason |-> "Image missing tools hash label"]
RebuildChanged == [needsRebuild |-> TRUE, reason |-> "Tools configuration changed"]
UpToDate == [needsRebuild |-> FALSE, reason |-> "Image up to date"]

\* Mutant: without a current hash the image label is not looked at
checkImageStatusIgnoresLabel(exists, imageHash, currentToolsHash) ==
    IF ~exists THEN RebuildNotExist
    ELSE IF currentToolsHash = NoHash THEN UpToDateNoTools
         ELSE IF imageHash = NoHash THEN RebuildMissingLabel
              ELSE IF imageHash # currentToolsHash THEN RebuildChanged
                   ELSE UpToDate

\* exists: imageExists(); imageHash: getImageToolsHash(), read only when the
\* image exists
checkImageStatus(exists, imageHash, currentToolsHash) ==
    IF ~exists THEN RebuildNotExist
    ELSE IF currentToolsHash = NoHash
         THEN IF imageHash # NoHash THEN RebuildRemoved ELSE UpToDateNoTools
         ELSE IF imageHash = NoHash THEN RebuildMissingLabel
              ELSE IF imageHash # currentToolsHash THEN RebuildChanged
                   ELSE UpToDate

----------------------------------------------------------------------------
(* ToolConfigService.resolveConfig(config)                                  *)

NoList == <<>>

\* customDockerfile?: string, left undefined
NoPath == ""

\* Three of the presets of TOOL_PRESETS, with the lists they define
TOOL_PRESETS ==
    [python |-> [apt |-> <<"python3", "python3-pip", "python3-venv">>,
                 npm |-> NoList, pip |-> <<"pytest", "black", "ruff">>,
                 cargo |-> NoList, commands |-> NoList],
     ruby |-> [apt |-> <<"ruby-full">>, npm |-> NoList, pip |-> NoList,
               cargo |-> NoList, commands |-> <<"gem install bundler">>],
     aws |-> [apt |-> <<"unzip">>, npm |-> NoList, pip |-> NoList,
              cargo |-> NoList,
              commands |-> <<"curl awscli", "unzip -q", "/tmp/aws/install", "rm -rf">>]]

PackageLists == {"apt", "npm", "pip", "cargo"}

\* Longest list of a tool config tried
MaxList == 2

ListsOver(S) == UNION {[1..n -> S] : n \in 0..MaxList}

\* ToolConfig as read from tools.yml: a missing list is the empty one
ToolConfigs ==
    [presets : ListsOver({"python", "ruby", "aws", "nodejs"}),
     apt : ListsOver({"python3", "git"}),
     npm : {<<>>, <<"typescript">>, <<"typescript", "typescript">>},
     pip : ListsOver({"pytest"}),
     cargo : {<<>>, <<"ripgrep">>},
     commands : ListsOver({"gem install bundler", "make"}),
     customDockerfile : {NoPath}]

\* [...new Set(list)]: the first occurrence of every element, in order
RECURSIVE dedupe(_)
dedupe(list) ==
    IF Len(list) = 0 THEN <<>>
    ELSE LET front == dedupe(SubSeq(list, 1, Len(list) - 1))
             last == list[Len(list)]
         IN IF \E i \in DOMAIN front : front[i] = last THEN front
            ELSE Append(front, last)

\* The loop over config.presets from i on: what the presets push on the
\* list of the given field; an unknown name pushes nothing
RECURSIVE expandPresets(_, _, _)
expandPresets(presets, field, i) ==
    IF i > Len(presets) THEN <<>>
    ELSE (IF presets[i] \in DOMAIN TOOL_PRESETS
          THEN TOOL_PRESETS[presets[i]][field] ELSE <<>>)
         \o expandPresets(presets, field, i + 1)

\* Mutant: the commands are deduplicated like the package lists
resolveConfigDedupAll(config) ==
    [f \in PackageLists \cup {"commands"} |->
        dedupe(expandPresets(config.presets, f, 1) \o config[f])]
    @@ [customDockerfile |-> config.customDockerfile]

resolveConfig(config) ==
    [f \in PackageLists \cup {"commands"} |->
        LET pushed == expandPresets(config.presets, f, 1) \o config[f]
        IN IF f \in PackageLists THEN dedupe(pushed) ELSE pushed]
    @@ [customDockerfile |-> config.customDockerfile]

\* hasTools(config): some list of the resolved config is non-empty or a
\* custom Dockerfile path is set
hasToolsPackagesOnly(resolved) ==
    \E f \in PackageLists : Len(resolved[f]) > 0

hasTools(resolved) ==
    \/ Len(resolved.apt) > 0
    \/ Len(resolved.npm) > 0
    \/ Len(resolved.pip) > 0
    \/ Len(resolved.cargo) > 0
    \/ Len(resolved.commands) > 0
    \/ resolved.customDockerfile # NoPath

\* A tool config with every field left out
EmptyToolConfig ==
    [presets |-> NoList, apt |-> NoList, npm |-> NoList, pip |-> NoList,
     cargo |-> NoList, commands |-> NoList, customDockerfile |-> NoPath]

\* readConfig() returning null
NoToolConfig == [null |-> TRUE, config |-> EmptyToolConfig]

\* tools.yml: absent, not parseable as YAML, empty (the parser yields null),
\* or holding a tool config
NoToolsFile == [kind |-> "absent", config |-> EmptyToolConfig]

CorruptToolsFile == [kind |-> "corrupt", config |-> EmptyToolConfig]

EmptyToolsFile == [kind |-> "empty", config |-> EmptyToolConfig]

YamlFile(config) == [kind |-> "yaml", config |-> config]

\* readConfig(): null without a file and when parse throws, else what parse
\* returns
readConfig(file) ==
    IF file.kind = "yaml" THEN [null |-> FALSE, config |-> file.config]
    ELSE NoToolConfig

\* if (toolConfig) { resolved = resolveConfig(toolConfig); if
\* (hasTools(resolved)) buildWithTools(...) } else build(): the build call
\* that buildDockerImage and BuildCommand.execute make
buildCall(toolConfig) ==
    IF ~toolConfig.null /\ hasTools(resolveConfig(toolConfig.config))
    THEN "buildWithTools" ELSE "build"

\* What the four tools.yml contents of the flows hold: nothing, an apt
\* package, a preset, and a preset name that is not known
ToolsFileOf(cfg) ==
    IF cfg = "none" THEN NoToolsFile
    ELSE IF cfg = "A" THEN YamlFile([EmptyToolConfig EXCEPT !.apt = <<"git">>])
    ELSE IF cfg = "B" THEN YamlFile([EmptyToolConfig EXCEPT !.presets = <<"python">>])
    ELSE YamlFile([EmptyToolConfig EXCEPT !.presets = <<"nodejs">>])

----------------------------------------------------------------------------
(* The tools hash and the build call of the four tools.yml contents *)

\* ToolConfigService.getConfigHash(): null without a file, else the digest of
\* the file's content
getConfigHash(cfg) == IF cfg = "none" THEN NoHash
                      ELSE IF cfg = "A" THEN "hashA"
                      ELSE IF cfg = "B" THEN "hashB" ELSE "hashE"

\* toolConfig && hasTools(resolveConfig(toolConfig))
configHasTools(cfg) == buildCall(readConfig(ToolsFileOf(cfg))) = "buildWithTools"

----------------------------------------------------------------------------
(* DockerService.build / buildWithTools: the image after the build *)

\* build(): docker compose build produces the plain image, without the
\* tools-hash label
buildImage(img, ok) == IF ok THEN [exists |-> TRUE, label |-> NoHash] ELSE img

\* buildWithTools(): (1) compose build of the plain image, (2) tag it as base,
\* (3) write the generated Dockerfile, (4) build the final image from it with
\* --label tools-hash=toolsHash when toolsHash is set.  failAt is the first
\* failing step, 0 when none fails.
buildWithToolsImage(img, toolsHash, failAt) ==
    IF failAt = 1 THEN img
    ELSE IF failAt \in {2, 3, 4} THEN [exists |-> TRUE, label |-> NoHash]
    ELSE [exists |-> TRUE, label |-> toolsHash]

\* buildWithTools(): Dockerfile.custom is written in step (3) and is there
\* from then on, whether the final build succeeds or not
customDockerfileAfter(had, failAt) == IF failAt \in {1, 2, 3} THEN had ELSE TRUE

\* The tools.yml content the image was successfully built for: a failed
\* build that left its intermediate image behind is no successful build
builtCfgAfter(was, cfg, ok, replaced) ==
    IF ok THEN cfg ELSE IF replaced THEN NoCfg ELSE was

----------------------------------------------------------------------------
(* Initial state: a fresh installation, before or after the setup wizard    *)
(* wrote .env.docker                                                        *)

NoCheck == [done |-> FALSE, exists |-> FALSE, imageHash |-> NoHash,
            currentHash |-> NoHash, result |-> UpToDate]

DefaultOpts == [detach |-> FALSE, build |-> FALSE]

Init ==
    /\ stateFile = AbsentFile
    /\ state = getDefaultState
    /\ entryState = getDefaultState
    /\ cmd = "none"
    /\ pc = "idle"
    /\ opts = DefaultOpts
    /\ invocations = 0
    /\ prevCmd = "none"
    /\ exitCode = -1
    /\ outcome = "none"
    /\ calls = <<>>
    /\ ngrokPid = NoPid
    /\ tunnelUrl = NoUrl
    /\ procs = {}
    /\ spawned = 0
    /\ containerUp = FALSE
    /\ envFile \in {[exists |-> FALSE, CYRUS_BASE_URL |-> NoUrl],
                    [exists |-> TRUE, CYRUS_BASE_URL |-> NoUrl]}
    /\ image = [exists |-> FALSE, label |-> NoHash]
    /\ toolsCfg \in ToolsCfgs
    /\ imgCheck = NoCheck
    /\ customDockerfile = FALSE
    /\ builtCfg = NoCfg
    /\ call = NoCall

----------------------------------------------------------------------------
(* Helpers of the flows *)

Call(op, arg, res) == [op |-> op, arg |-> arg, res |-> res]

Log(c) == calls' = Append(calls, c)

built == <<image, customDockerfile, builtCfg>>
world == <<stateFile, procs, spawned, containerUp, envFile, built, toolsCfg>>
locals == <<ngrokPid, tunnelUrl, imgCheck>>
process == <<cmd, opts, invocations, prevCmd, exitCode, outcome, entryState>>

\* The flow goes on to step p
Goto(p) ==
    /\ pc' = p
    /\ UNCHANGED <<process, call>>

\* The process ends: process.exit(code), a return from execute(), or an
\* exception that the entry point reports with exit code 1
End(code, how) ==
    /\ pc' = "idle"
    /\ exitCode' = code
    /\ outcome' = how
    /\ UNCHANGED <<cmd, prevCmd, opts, invocations, entryState, call>>

\* process.kill(pid, "SIGTERM") in TunnelService.stop: delivered, no such
\* process (swallowed), or another OS error (thrown).  The tool's own child
\* can always be signalled, so in the last two cases it has already exited.
KillResults == {"ok", "ESRCH", "EPERM"}

\* The program's entry point: a command is parsed, the Application is
\* constructed (StateService loads the state file) and execute() starts.
\* Since the last process the container may have exited and tools.yml may
\* have been edited.
Invoke ==
    /\ pc = "idle"
    /\ invocations < MaxInvocations
    /\ \E c \in {"start", "stop"}, d \in BOOLEAN, b \in BOOLEAN :
          /\ cmd' = c
          /\ opts' = IF c = "start" THEN [detach |-> d, build |-> b] ELSE DefaultOpts
          /\ pc' = IF c = "start" THEN "prereq" ELSE "down"
    /\ prevCmd' = cmd
    /\ invocations' = invocations + 1
    /\ state' = load(stateFile)
    /\ entryState' = load(stateFile)
    /\ exitCode' = -1
    /\ outcome' = "running"
    /\ calls' = <<>>
    /\ ngrokPid' = NoPid
    /\ tunnelUrl' = NoUrl
    /\ imgCheck' = NoCheck
    /\ containerUp' \in {containerUp, FALSE}
    /\ toolsCfg' \in ToolsCfgs
    /\ UNCHANGED <<stateFile, procs, spawned, envFile, built, call>>

----------------------------------------------------------------------------
(* StartCommand.execute *)

\* What checkPrerequisites() can find: each tool available or not
Prereqs == [docker : BOOLEAN, dockerCompose : BOOLEAN, ngrok : BOOLEAN]

\* The log entry of checkPrerequisites(): what was found
PrereqCall(prereqs) ==
    Call("checkPrerequisites", NoPid,
         IF prereqs.docker /\ prereqs.dockerCompose /\ prereqs.ngrok
         THEN "ok" ELSE "missing")

\* Mutant: the tunnel binary is not part of the verdict
allPrerequisitesMetNoNgrok(prereqs) == prereqs.docker /\ prereqs.dockerCompose

allPrerequisitesMet(prereqs) == prereqs.docker /\ prereqs.dockerCompose /\ prereqs.ngrok

\* requirePrerequisites(): docker info, docker compose version, which ngrok
StartPrereq ==
    /\ cmd = "start" /\ pc = "prereq"
    /\ \E prereqs \in Prereqs :
          /\ Log(PrereqCall(prereqs))
          /\ IF allPrerequisitesMet(prereqs)
             THEN Goto("checkRunning")
             ELSE End(1, "prereq")
    /\ UNCHANGED <<state, world, locals>>

\* Mutant: the short-circuit lacks its return and the flow goes on
StartCheckRunningNoReturn ==
    /\ cmd = "start" /\ pc = "checkRunning"
    /\ IF state.isRunning
       THEN \E inspectOk \in BOOLEAN :
              IF inspectOk /\ containerUp
              THEN /\ Log(Call("getStatus", NoPid, "running"))
                   /\ Goto("envCheck")
                   /\ UNCHANGED <<state, stateFile>>
              ELSE /\ calls' = calls \o <<Call("getStatus", NoPid, "notRunning"),
                                          Call("setStopped", NoPid, "ok")>>
                   /\ state' = setStopped(state)
                   /\ stateFile' \in saveResults(state', stateFile)
                   /\ Goto("envCheck")
       ELSE /\ Goto("envCheck")
            /\ UNCHANGED <<state, stateFile, calls>>
    /\ UNCHANGED <<procs, spawned, containerUp, envFile, built, toolsCfg, locals>>

\* Mutant: stale state is noticed but not cleared
StartCheckRunningKeepsStale ==
    /\ cmd = "start" /\ pc = "checkRunning"
    /\ IF state.isRunning
       THEN \E inspectOk \in BOOLEAN :
              IF inspectOk /\ containerUp
              THEN /\ Log(Call("getStatus", NoPid, "running"))
                   /\ End(0, "already")
              ELSE /\ Log(Call("getStatus", NoPid, "notRunning"))
                   /\ Goto("envCheck")
       ELSE /\ Goto("envCheck")
            /\ UNCHANGED calls
    /\ UNCHANGED <<state, world, locals>>

\* The already-running check: a live container status confirms the state, or
\* the state is stale and is cleared.  getStatus() reports not running when
\* the inspect command fails.
StartCheckRunning ==
    /\ cmd = "start" /\ pc = "checkRunning"
    /\ IF state.isRunning
       THEN \E inspectOk \in BOOLEAN :
              IF inspectOk /\ containerUp
              THEN /\ Log(Call("getStatus", NoPid, "running"))
                   /\ End(0, "already")
                   /\ UNCHANGED <<state, stateFile>>
              ELSE /\ calls' = calls \o <<Call("getStatus", NoPid, "notRunning"),
                                          Call("setStopped", NoPid, "ok")>>
                   /\ state' = setStopped(state)
                   /\ stateFile' \in saveResults(state', stateFile)
                   /\ Goto("envCheck")
       ELSE /\ Goto("envCheck")
            /\ UNCHANGED <<state, stateFile, calls>>
    /\ UNCHANGED <<procs, spawned, containerUp, envFile, built, toolsCfg, locals>>

\* Mutant: a missing env file does not end the flow
StartEnvCheckNoAbort ==
    /\ cmd = "start" /\ pc = "envCheck"
    /\ Log(Call("hasEnvFile", NoPid, IF envFile.exists THEN "yes" ELSE "no"))
    /\ Goto("tunnelStart")
    /\ UNCHANGED <<state, world, locals>>

\* hasEnvFile()
StartEnvCheck ==
    /\ cmd = "start" /\ pc = "envCheck"
    /\ IF envFile.exists
       THEN /\ Log(Call("hasEnvFile", NoPid, "yes"))
            /\ Goto("tunnelStart")
       ELSE /\ Log(Call("hasEnvFile", NoPid, "no"))
            /\ End(1, "noEnv")
    /\ UNCHANGED <<state, world, locals>>

\* tunnel.start(DEFAULT_PORT): `which ngrok` may fail (throws), spawn gives a
\* detached child with a pid, or no pid when the spawn failed
StartTunnel ==
    /\ cmd = "start" /\ pc = "tunnelStart"
    /\ \E whichOk \in BOOLEAN, spawnOk \in BOOLEAN :
          IF ~whichOk
          THEN /\ Log(Call("tunnel.start", NoPid, "throws"))
               /\ End(1, "exception")
               /\ UNCHANGED <<procs, spawned, ngrokPid>>
          ELSE IF ~spawnOk
          THEN /\ Log(Call("tunnel.start", NoPid, "noPid"))
               /\ End(1, "noPid")
               /\ UNCHANGED <<procs, spawned, ngrokPid>>
          ELSE /\ Log(Call("tunnel.start", spawned + 1, "ok"))
               /\ spawned' = spawned + 1
               /\ procs' = procs \cup {spawned + 1}
               /\ ngrokPid' = spawned + 1
               /\ Goto("waitUrl")
    /\ UNCHANGED <<state, stateFile, containerUp, envFile, built, toolsCfg,
                   tunnelUrl, imgCheck>>

\* getUrl(): null when the query fails or lists no tunnel, else the public
\* URL of a tunnel process answering the local API
getUrlResults(live) == {NoUrl} \cup {UrlOf(p) : p \in live}

\* Mutant: the env update is skipped after the URL was acquired
waitUrlSkipEnvUpdate(url) == IF url # NoUrl THEN "build" ELSE "urlCleanup"

\* try { tunnelUrl = await waitForUrl() } catch { stop the tunnel, exit }
waitUrlNext(url) == IF url # NoUrl THEN "envUpdate" ELSE "urlCleanup"

\* tunnel.waitForUrl(): polls getUrl() up to NGROK_MAX_RETRIES times and
\* returns the first URL found; the timeout error when every poll gave null
StartWaitUrl ==
    /\ cmd = "start" /\ pc = "waitUrl"
    /\ \E url \in getUrlResults(procs) :
          /\ tunnelUrl' = url
          /\ Log(Call("waitForUrl", NoPid, IF url # NoUrl THEN "ok" ELSE "timeout"))
          /\ Goto(waitUrlNext(url))
    /\ UNCHANGED <<state, world, ngrokPid, imgCheck>>

\* Mutant: the catch of waitForUrl exits without stopping the tunnel
StartUrlCleanupNoStop ==
    /\ cmd = "start" /\ pc = "urlCleanup"
    /\ End(1, "urlTimeout")
    /\ UNCHANGED <<state, world, locals, calls>>

\* catch of waitForUrl: tunnel.stop(ngrokPid), then exitWithError
StartUrlCleanup ==
    /\ cmd = "start" /\ pc = "urlCleanup"
    /\ \E r \in KillResults :
          /\ Log(Call("tunnel.stop", ngrokPid, r))
          /\ procs' = procs \ {ngrokPid}
          /\ IF r = "EPERM" THEN End(1, "exception") ELSE End(1, "urlTimeout")
    /\ UNCHANGED <<state, stateFile, spawned, containerUp, envFile, built,
                   toolsCfg, locals>>

\* docker.updateEnvValue("CYRUS_BASE_URL", tunnelUrl); the file write may throw
StartEnvUpdate ==
    /\ cmd = "start" /\ pc = "envUpdate"
    /\ \E writeOk \in BOOLEAN :
          IF writeOk
          THEN /\ envFile' = [exists |-> TRUE, CYRUS_BASE_URL |-> tunnelUrl]
               /\ Log(Call("updateEnvValue", NoPid, "ok"))
               /\ Goto("build")
          ELSE /\ Log(Call("updateEnvValue", NoPid, "throws"))
               /\ End(1, "exception")
               /\ UNCHANGED envFile
    /\ UNCHANGED <<state, stateFile, procs, spawned, containerUp, built,
                   toolsCfg, locals>>

\* buildDockerImage(), the decision: with --build the table is not consulted;
\* otherwise checkImageStatus(toolsHash), where a failing image inspect reads
\* as "no image" and a failing label inspect as "no label"
StartBuildCheck ==
    /\ cmd = "start" /\ pc = "build"
    /\ IF opts.build
       THEN /\ Goto("buildRun")
            /\ UNCHANGED <<imgCheck, calls>>
       ELSE \E inspectOk \in BOOLEAN, labelOk \in BOOLEAN :
              LET exists == image.exists /\ inspectOk
                  imageHash == IF image.exists /\ labelOk THEN image.label ELSE NoHash
                  r == checkImageStatus(exists, imageHash, getConfigHash(toolsCfg))
              IN /\ imgCheck' = [done |-> TRUE, exists |-> exists,
                                 imageHash |-> imageHash,
                                 currentHash |-> getConfigHash(toolsCfg),
                                 result |-> r]
                 /\ Log(Call("checkImageStatus", NoPid,
                             IF r.needsRebuild THEN "rebuild" ELSE "skip"))
                 /\ IF r.needsRebuild THEN Goto("buildRun") ELSE Goto("up")
    /\ UNCHANGED <<state, world, ngrokPid, tunnelUrl>>

\* Mutant: a failure of the build or of compose up is not caught as fatal
dockerStepIgnoreFailure(ok, next) == next

\* try { await buildDockerImage(); await docker.up() } catch { stop the
\* tunnel, exit }: where the flow goes after one of the two calls
dockerStepNext(ok, next) == IF ok THEN next ELSE "dockerCleanup"

\* build(options = {}) and buildWithTools(..., options = {}): the options of a
\* call that passes none; options.noCache is undefined, so no --no-cache
NoBuildOptions == [noCache |-> FALSE]

\* if (options.noCache) args.push("--no-cache"): whether the docker compose
\* build invocations of one build()/buildWithTools() call carry the flag
noCacheFlag(options) == options.noCache

\* buildDockerImage(), the build: buildWithTools when the config has tools,
\* else build(), both called without options; a failing build throws into
\* the catch of execute()
StartBuildRun ==
    /\ cmd = "start" /\ pc = "buildRun"
    /\ IF configHasTools(toolsCfg)
       THEN \E failAt \in 0..4 :
              /\ image' = buildWithToolsImage(image, getConfigHash(toolsCfg), failAt)
              /\ customDockerfile' = customDockerfileAfter(customDockerfile, failAt)
              /\ builtCfg' = builtCfgAfter(builtCfg, toolsCfg, failAt = 0, failAt > 1)
              /\ Log(Call("buildWithTools", noCacheFlag(NoBuildOptions),
                          IF failAt = 0 THEN "ok" ELSE "throws"))
              /\ Goto(dockerStepNext(failAt = 0, "up"))
       ELSE \E ok \in BOOLEAN :
              /\ image' = buildImage(image, ok)
              /\ builtCfg' = builtCfgAfter(builtCfg, toolsCfg, ok, FALSE)
              /\ UNCHANGED customDockerfile
              /\ Log(Call("build", noCacheFlag(NoBuildOptions), IF ok THEN "ok" ELSE "throws"))
              /\ Goto(dockerStepNext(ok, "up"))
    /\ UNCHANGED <<state, stateFile, procs, spawned, containerUp, envFile,
                   toolsCfg, locals>>

\* docker.up(): docker compose up -d
StartUp ==
    /\ cmd = "start" /\ pc = "up"
    /\ \E ok \in BOOLEAN :
          /\ containerUp' = IF ok THEN TRUE ELSE containerUp
          /\ Log(Call("up", NoPid, IF ok THEN "ok" ELSE "throws"))
          /\ Goto(dockerStepNext(ok, "health"))
    /\ UNCHANGED <<state, stateFile, procs, spawned, envFile, built, toolsCfg,
                   locals>>

\* Mutant: the catch of build / up exits without stopping the tunnel
StartDockerCleanupNoStop ==
    /\ cmd = "start" /\ pc = "dockerCleanup"
    /\ End(1, "dockerFail")
    /\ UNCHANGED <<state, world, locals, calls>>

\* catch of build / up: tunnel.stop(ngrokPid), then exitWithError
StartDockerCleanup ==
    /\ cmd = "start" /\ pc = "dockerCleanup"
    /\ \E r \in KillResults :
          /\ Log(Call("tunnel.stop", ngrokPid, r))
          /\ procs' = procs \ {ngrokPid}
          /\ IF r = "EPERM" THEN End(1, "exception") ELSE End(1, "dockerFail")
    /\ UNCHANGED <<state, stateFile, spawned, containerUp, envFile, built,
                   toolsCfg, locals>>

\* DockerService.getStatus(): {running: false, health: "none"} when the
\* inspect fails, else the container's running flag and normalized health
getStatus(inspectOk, running, health) ==
    IF inspectOk THEN [running |-> running, health |-> health]
    ELSE [running |-> FALSE, health |-> "none"]

\* What one poll of waitForHealthy does with a status
pollHealthy(status) ==
    IF status.health = "healthy" THEN "healthy"
    ELSE IF ~status.running THEN "stopped"
    ELSE IF status.health = "unhealthy" THEN "unhealthy"
    ELSE "sleep"

\* Mutant: the health gate shares the fatal catch of compose up
healthGateFatal(r) == IF r = "healthy" THEN "commit" ELSE "dockerCleanup"

\* try { await waitForHealthy() } catch { warn }: where the flow goes after
\* the health gate ended with result r
healthGateNext(r) == "commit"

\* docker.waitForHealthy() inside try / catch: the loop ends at the first
\* poll that does not sleep, or with the timeout error when every poll within
\* CONTAINER_HEALTH_TIMEOUT slept; every error is caught and logged as a
\* warning.  The container may exit while the flow waits.
StartHealth ==
    /\ cmd = "start" /\ pc = "health"
    /\ \E exits \in BOOLEAN, inspectOk \in BOOLEAN, health \in Health :
          LET up == containerUp /\ ~exits
              r == pollHealthy(getStatus(inspectOk, up, health))
          IN /\ containerUp' = up
             /\ Log(Call("waitForHealthy", NoPid, IF r = "sleep" THEN "timeout" ELSE r))
             /\ Goto(healthGateNext(IF r = "sleep" THEN "timeout" ELSE r))
    /\ UNCHANGED <<state, stateFile, procs, spawned, envFile, built, toolsCfg,
                   locals>>

\* state.setRunning(ngrokPid, tunnelUrl, dockerDir), printSuccess; with
\* --detach the flow returns here
StartCommit ==
    /\ cmd = "start" /\ pc = "commit"
    /\ state' = setRunning(state, ngrokPid, tunnelUrl, AppDockerDir, invocations)
    /\ stateFile' \in saveResults(state', stateFile)
    /\ Log(Call("setRunning", ngrokPid, "ok"))
    /\ IF opts.detach THEN End(0, "success") ELSE Goto("logs")
    /\ UNCHANGED <<procs, spawned, containerUp, envFile, built, toolsCfg, locals>>

StartLogsFailureCleansUp ==
    /\ cmd = "start" /\ pc = "logs"
    /\ \E r \in {"returns", "interrupted"} :
          /\ calls' = calls \o <<Call("logs", NoPid, r)>>
                        \o (IF r = "interrupted"
                            THEN <<Call("tunnel.stop", ngrokPid, "ok")>> ELSE <<>>)
          /\ procs' = IF r = "interrupted" THEN procs \ {ngrokPid} ELSE procs
          /\ IF r = "interrupted" THEN End(1, "logsFailed") ELSE End(0, "success")
    /\ UNCHANGED <<state, stateFile, spawned, containerUp, envFile, built,
                   toolsCfg, locals>>

\* docker.logs({follow: true}): returns, or is interrupted (caught)
StartLogs ==
    /\ cmd = "start" /\ pc = "logs"
    /\ \E r \in {"returns", "interrupted"} : Log(Call("logs", NoPid, r))
    /\ End(0, "success")
    /\ UNCHANGED <<state, world, locals>>

----------------------------------------------------------------------------
(* StopCommand.execute *)

\* ngrokPid = state.getNgrokPid(); docker.down() inside try / catch
StopDown ==
    /\ cmd = "stop" /\ pc = "down"
    /\ ngrokPid' = state.ngrokPid
    /\ \E ok \in BOOLEAN :
          /\ containerUp' = IF ok THEN FALSE ELSE containerUp
          /\ Log(Call("down", NoPid, IF ok THEN "ok" ELSE "throws"))
    /\ Goto("stopTunnel")
    /\ UNCHANGED <<state, stateFile, procs, spawned, envFile, built, toolsCfg,
                   tunnelUrl, imgCheck>>

\* if (ngrokPid) tunnel.stop(ngrokPid) inside try / catch
StopTunnel ==
    /\ cmd = "stop" /\ pc = "stopTunnel"
    /\ IF ngrokPid # NoPid
       THEN \E r \in KillResults :
              /\ Log(Call("tunnel.stop", ngrokPid, r))
              /\ procs' = procs \ {ngrokPid}
       ELSE UNCHANGED <<calls, procs>>
    /\ Goto("stopClear")
    /\ UNCHANGED <<state, stateFile, spawned, containerUp, envFile, built,
                   toolsCfg, locals>>

\* state.setStopped(), then the report
StopClear ==
    /\ cmd = "stop" /\ pc = "stopClear"
    /\ state' = setStopped(state)
    /\ stateFile' \in saveResults(state', stateFile)
    /\ Log(Call("setStopped", NoPid, "ok"))
    /\ End(0, IF entryState.isRunning THEN "stopped" ELSE "cleaned")
    /\ UNCHANGED <<procs, spawned, containerUp, envFile, built, toolsCfg, locals>>

----------------------------------------------------------------------------

Next ==
    \/ Invoke
    \/ StartPrereq \/ StartCheckRunning \/ StartEnvCheck \/ StartTunnel
    \/ StartWaitUrl \/ StartUrlCleanup \/ StartEnvUpdate \/ StartBuildCheck
    \/ StartBuildRun \/ StartUp \/ StartDockerCleanup \/ StartHealth
    \/ StartCommit \/ StartLogs
    \/ StopDown \/ StopTunnel \/ StopClear

Spec == Init /\ [][Next]_vars

----------------------------------------------------------------------------
(* BuildCommand.execute *)

BuildPrereq ==
    /\ cmd = "build" /\ pc = "buildPrereq"
    /\ \E prereqs \in Prereqs :
          /\ Log(PrereqCall(prereqs))
          /\ IF allPrerequisitesMet(prereqs)
             THEN Goto("buildCheck")
             ELSE End(1, "prereq")
    /\ UNCHANGED <<state, world, locals>>

\* Mutant: --force is ignored and the staleness table decides alone
BuildCheckIgnoresForce ==
    /\ cmd = "build" /\ pc = "buildCheck"
    /\ \E inspectOk \in BOOLEAN, labelOk \in BOOLEAN :
          LET exists == image.exists /\ inspectOk
              imageHash == IF image.exists /\ labelOk THEN image.label ELSE NoHash
              r == checkImageStatus(exists, imageHash, getConfigHash(toolsCfg))
          IN /\ imgCheck' = [done |-> TRUE, exists |-> exists,
                             imageHash |-> imageHash,
                             currentHash |-> getConfigHash(toolsCfg),
                             result |-> r]
             /\ Log(Call("checkImageStatus", NoPid,
                         IF r.needsRebuild THEN "rebuild" ELSE "skip"))
             /\ IF r.needsRebuild THEN Goto("buildOnly") ELSE End(0, "upToDate")
    /\ UNCHANGED <<state, world, ngrokPid, tunnelUrl>>

\* The decision: with --force the table is not consulted; otherwise
\* checkImageStatus(toolsHash), and the flow returns when no rebuild is needed
BuildCheck ==
    /\ cmd = "build" /\ pc = "buildCheck"
    /\ IF opts.force
       THEN /\ Goto("buildOnly")
            /\ UNCHANGED <<imgCheck, calls>>
       ELSE \E inspectOk \in BOOLEAN, labelOk \in BOOLEAN :
              LET exists == image.exists /\ inspectOk
                  imageHash == IF image.exists /\ labelOk THEN image.label ELSE NoHash
                  r == checkImageStatus(exists, imageHash, getConfigHash(toolsCfg))
              IN /\ imgCheck' = [done |-> TRUE, exists |-> exists,
                                 imageHash |-> imageHash,
                                 currentHash |-> getConfigHash(toolsCfg),
                                 result |-> r]
                 /\ Log(Call("checkImageStatus", NoPid,
                             IF r.needsRebuild THEN "rebuild" ELSE "skip"))
                 /\ IF r.needsRebuild THEN Goto("buildOnly") ELSE End(0, "upToDate")
    /\ UNCHANGED <<state, world, ngrokPid, tunnelUrl>>

\* const buildOptions = { noCache: this.options.force }
buildOptions(options) == [noCache |-> options.force]

\* The build: buildWithTools when the config has tools, else build(), both
\* called with buildOptions; a failing build throws out of execute() and the
\* entry point exits with 1
BuildRun ==
    /\ cmd = "build" /\ pc = "buildOnly"
    /\ IF configHasTools(toolsCfg)
       THEN \E failAt \in 0..4 :
              /\ image' = buildWithToolsImage(image, getConfigHash(toolsCfg), failAt)
              /\ customDockerfile' = customDockerfileAfter(customDockerfile, failAt)
              /\ builtCfg' = builtCfgAfter(builtCfg, toolsCfg, failAt = 0, failAt > 1)
              /\ Log(Call("buildWithTools", noCacheFlag(buildOptions(opts)),
                          IF failAt = 0 THEN "ok" ELSE "throws"))
              /\ IF failAt = 0 THEN End(0, "built") ELSE End(1, "exception")
       ELSE \E ok \in BOOLEAN :
              /\ image' = buildImage(image, ok)
              /\ builtCfg' = builtCfgAfter(builtCfg, toolsCfg, ok, FALSE)
              /\ UNCHANGED customDockerfile
              /\ Log(Call("build", noCacheFlag(buildOptions(opts)), IF ok THEN "ok" ELSE "throws"))
              /\ IF ok THEN End(0, "built") ELSE End(1, "exception")
    /\ UNCHANGED <<state, stateFile, procs, spawned, containerUp, envFile,
                   toolsCfg, locals>>

----------------------------------------------------------------------------
(* RestartCommand.execute *)

\* if (!state.isRunning()) exitWithError; status = getStatus(), which only
\* warns when the container is not running
RestartCheck ==
    /\ cmd = "restart" /\ pc = "restartCheck"
    /\ IF ~state.isRunning
       THEN /\ End(1, "notRunning")
            /\ UNCHANGED calls
       ELSE /\ \E inspectOk \in BOOLEAN :
                 Log(Call("getStatus", NoPid,
                          IF inspectOk /\ containerUp THEN "running" ELSE "notRunning"))
            /\ Goto("restartDown")
    /\ UNCHANGED <<state, world, locals>>

\* docker.down() inside try / catch
RestartDown ==
    /\ cmd = "restart" /\ pc = "restartDown"
    /\ \E ok \in BOOLEAN :
          /\ containerUp' = IF ok THEN FALSE ELSE containerUp
          /\ Log(Call("down", NoPid, IF ok THEN "ok" ELSE "throws"))
    /\ Goto("restartUp")
    /\ UNCHANGED <<state, stateFile, procs, spawned, envFile, built, toolsCfg,
                   locals>>

\* Mutant: a failing compose up marks the system stopped, as the stop flow does
RestartUpClearsState ==
    /\ cmd = "restart" /\ pc = "restartUp"
    /\ \E ok \in BOOLEAN :
          /\ containerUp' = IF ok THEN TRUE ELSE containerUp
          /\ Log(Call("up", NoPid, IF ok THEN "ok" ELSE "throws"))
          /\ IF ok
             THEN Goto("restartHealth") /\ UNCHANGED <<state, stateFile>>
             ELSE /\ End(1, "dockerFail")
                  /\ state' = setStopped(state)
                  /\ stateFile' \in saveResults(state', stateFile)
    /\ UNCHANGED <<procs, spawned, envFile, built, toolsCfg, locals>>

\* docker.up(); a failure is fatal
RestartUp ==
    /\ cmd = "restart" /\ pc = "restartUp"
    /\ \E ok \in BOOLEAN :
          /\ containerUp' = IF ok THEN TRUE ELSE containerUp
          /\ Log(Call("up", NoPid, IF ok THEN "ok" ELSE "throws"))
          /\ IF ok THEN Goto("restartHealth") ELSE End(1, "dockerFail")
    /\ UNCHANGED <<state, stateFile, procs, spawned, envFile, built, toolsCfg,
                   locals>>

\* docker.waitForHealthy() inside try / catch, then the success report
RestartHealth ==
    /\ cmd = "restart" /\ pc = "restartHealth"
    /\ \E exits \in BOOLEAN, inspectOk \in BOOLEAN, health \in Health :
          LET up == containerUp /\ ~exits
              r == pollHealthy(getStatus(inspectOk, up, health))
          IN /\ containerUp' = up
             /\ Log(Call("waitForHealthy", NoPid, IF r = "sleep" THEN "timeout" ELSE r))
    /\ End(0, "restarted")
    /\ UNCHANGED <<state, stateFile, procs, spawned, envFile, built, toolsCfg,
                   locals>>

----------------------------------------------------------------------------
(* All four flows: start, stop, build, restart *)

\* CLI processes launched in one behaviour of SpecCli
MaxRuns == 2

\* The command classes whose execute() is modelled.  The program registers
\* start, stop and build; RestartCommand is constructed by no action of the
\* program (see Registered), so its flow is run here as a caller of the class
\* would run it.
Commands == {"start", "stop", "build", "restart"}

\* The first step of a command's execute()
FirstStep(c) ==
    IF c = "start" THEN "prereq"
    ELSE IF c = "stop" THEN "down"
    ELSE IF c = "build" THEN "buildPrereq"
    ELSE IF c \in {"logs", "shell", "auth", "add-repo"} THEN "containerCheck"
    ELSE "restartCheck"

\* StartOptions, BuildOptions, or no options
OptionsOf(c, d, b) ==
    IF c = "start" THEN [detach |-> d, build |-> b]
    ELSE IF c = "build" THEN [force |-> b]
    ELSE DefaultOpts

\* A command's execute() starts in a new process, as in Invoke; at most max
\* processes are launched
InvokeCliWithin(max) ==
    /\ pc = "idle"
    /\ invocations < max
    /\ \E c \in Commands, d \in BOOLEAN, b \in BOOLEAN :
          /\ cmd' = c
          /\ opts' = OptionsOf(c, d, b)
          /\ pc' = FirstStep(c)
    /\ prevCmd' = cmd
    /\ invocations' = invocations + 1
    /\ state' = load(stateFile)
    /\ entryState' = load(stateFile)
    /\ exitCode' = -1
    /\ outcome' = "running"
    /\ calls' = <<>>
    /\ ngrokPid' = NoPid
    /\ tunnelUrl' = NoUrl
    /\ imgCheck' = NoCheck
    /\ containerUp' \in {containerUp, FALSE}
    /\ toolsCfg' \in ToolsCfgs
    /\ UNCHANGED <<stateFile, procs, spawned, envFile, built, call>>

InvokeCli == InvokeCliWithin(MaxRuns)

NextCli ==
    \/ InvokeCli
    \/ StartPrereq \/ StartCheckRunning \/ StartEnvCheck \/ StartTunnel
    \/ StartWaitUrl \/ StartUrlCleanup \/ StartEnvUpdate \/ StartBuildCheck
    \/ StartBuildRun \/ StartUp \/ StartDockerCleanup \/ StartHealth
    \/ StartCommit \/ StartLogs
    \/ StopDown \/ StopTunnel \/ StopClear
    \/ BuildPrereq \/ BuildCheck \/ BuildRun
    \/ RestartCheck \/ RestartDown \/ RestartUp \/ RestartHealth

SpecCli == Init /\ [][NextCli]_vars

\* CLI processes launched in one behaviour of SpecCliLong: a history of two
\* earlier invocations before the one looked at
MaxRunsLong == 3

InvokeCliLong == InvokeCliWithin(MaxRunsLong)

NextCliLong ==
    \/ InvokeCliLong
    \/ StartPrereq \/ StartCheckRunning \/ StartEnvCheck \/ StartTunnel
    \/ StartWaitUrl \/ StartUrlCleanup \/ StartEnvUpdate \/ StartBuildCheck
    \/ StartBuildRun \/ StartUp \/ StartDockerCleanup \/ StartHealth
    \/ StartCommit \/ StartLogs
    \/ StopDown \/ StopTunnel \/ StopClear
    \/ BuildPrereq \/ BuildCheck \/ BuildRun
    \/ RestartCheck \/ RestartDown \/ RestartUp \/ RestartHealth

SpecCliLong == Init /\ [][NextCliLong]_vars

----------------------------------------------------------------------------
(* LogsCommand, ShellCommand, AuthCommand, AddRepoCommand: the commands    *)
(* that work inside the running container                                  *)

ContainerCommands == {"logs", "shell", "auth", "add-repo"}

\* The DockerService call each of them makes: docker.logs, docker.shell,
\* docker.exec
containerOp(c) ==
    IF c = "logs" THEN "logs" ELSE IF c = "shell" THEN "shell" ELSE "exec"

\* How the container call ends: it returns, or execa throws with the exit
\* code of the command (0 is not thrown by execa but is tested by the code),
\* or it throws an error without exit code
ExecResults == {"returns", "exit0", "exit1", "noExitCode"}

\* The catch clause of each command: the exit code the process ends with and
\* how.  logs swallows everything; shell rethrows an error without exit
\* code, which the entry point reports with 1; auth and add-repo exit with a
\* non-zero exit code of the command and swallow the rest.
execEnd(c, r) ==
    IF r = "returns" THEN [code |-> 0, how |-> "done"]
    ELSE IF c = "logs" THEN [code |-> 0, how |-> "done"]
    ELSE IF c = "shell"
         THEN IF r = "noExitCode" THEN [code |-> 1, how |-> "exception"]
              ELSE [code |-> 0, how |-> "done"]
    ELSE IF r = "exit1" THEN [code |-> 1, how |-> "commandFailed"]
         ELSE [code |-> 0, how |-> "done"]

ContainerCheckTrustsState ==
    /\ cmd \in ContainerCommands /\ pc = "containerCheck"
    /\ \E inspectOk \in BOOLEAN, health \in Health :
          LET status == getStatus(inspectOk, containerUp, health)
          IN /\ Log(Call("getStatus", NoPid,
                         IF status.running THEN "running" ELSE "notRunning"))
             /\ IF ~state.isRunning
                THEN End(1, "containerNotRunning")
                ELSE Goto("containerRun")
    /\ UNCHANGED <<state, world, locals>>

\* status = await docker.getStatus(); if (!status.running) exitWithError
ContainerCheck ==
    /\ cmd \in ContainerCommands /\ pc = "containerCheck"
    /\ \E inspectOk \in BOOLEAN, health \in Health :
          LET status == getStatus(inspectOk, containerUp, health)
          IN /\ Log(Call("getStatus", NoPid,
                         IF status.running THEN "running" ELSE "notRunning"))
             /\ IF ~status.running
                THEN End(1, "containerNotRunning")
                ELSE Goto("containerRun")
    /\ UNCHANGED <<state, world, locals>>

\* The container call inside try / catch, then the end of execute()
ContainerRun ==
    /\ cmd \in ContainerCommands /\ pc = "containerRun"
    /\ \E r \in ExecResults :
          /\ Log(Call(containerOp(cmd), NoPid, r))
          /\ End(execEnd(cmd, r).code, execEnd(cmd, r).how)
    /\ UNCHANGED <<state, world, locals>>

----------------------------------------------------------------------------

(* The command line: program.parseAsync(process.argv) picks the subcommand  *)
(* registered under the name given and runs its action                      *)

\* Command lines parsed in one behaviour of SpecDispatch
MaxParses == 2

\* The subcommand names a command line may give: the commands of the README
Subcommands ==
    {"init", "start", "stop", "restart", "status", "logs", "shell", "auth",
     "add-repo", "tools", "build"}

\* program.command(name): the subcommands the program registers.
\* RestartCommand is neither imported nor registered.
Registered ==
    {"init", "start", "stop", "status", "logs", "shell", "auth", "add-repo",
     "tools", "build"}

\* The registered subcommands whose execute() is modelled step by step
Modelled == {"start", "stop", "build"} \cup ContainerCommands

NoCommand == "none"

\* commander: the subcommand registered under the name, or none ("error:
\* unknown command", exit code 1)
dispatch(name) == IF name \in Registered THEN name ELSE NoCommand

\* One command line: the subcommand's action constructs the Application
\* (StateService loads the state file) and starts execute(); an unknown
\* subcommand ends the process with exit code 1 before any Application
\* exists
DispatchCli ==
    /\ pc = "idle"
    /\ invocations < MaxParses
    /\ \E name \in Subcommands, d \in BOOLEAN, b \in BOOLEAN :
          LET c == dispatch(name)
          IN /\ call' = [fn |-> "parseAsync", argv |-> name]
             /\ cmd' = c
             /\ opts' = OptionsOf(c, d, b)
             /\ IF c = NoCommand
                THEN /\ pc' = "idle"
                     /\ exitCode' = 1
                     /\ outcome' = "unknownCommand"
                     /\ UNCHANGED <<state, entryState>>
                ELSE /\ pc' = IF c \in Modelled THEN FirstStep(c) ELSE "execute"
                     /\ exitCode' = -1
                     /\ outcome' = "running"
                     /\ state' = load(stateFile)
                     /\ entryState' = load(stateFile)
    /\ prevCmd' = cmd
    /\ invocations' = invocations + 1
    /\ calls' = <<>>
    /\ ngrokPid' = NoPid
    /\ tunnelUrl' = NoUrl
    /\ imgCheck' = NoCheck
    /\ containerUp' \in {containerUp, FALSE}
    /\ toolsCfg' \in ToolsCfgs
    /\ UNCHANGED <<stateFile, procs, spawned, envFile, built>>

\* execute() of init, status and tools: the flow runs and the process ends;
\* its steps are outside this model
OtherExecute ==
    /\ cmd \in Registered \ Modelled /\ pc = "execute"
    /\ \E code \in {0, 1} : End(code, "executed")
    /\ UNCHANGED <<state, world, calls, locals>>

NextDispatch ==
    \/ DispatchCli
    \/ OtherExecute
    \/ ContainerCheck \/ ContainerRun
    \/ StartPrereq \/ StartCheckRunning \/ StartEnvCheck \/ StartTunnel
    \/ StartWaitUrl \/ StartUrlCleanup \/ StartEnvUpdate \/ StartBuildCheck
    \/ StartBuildRun \/ StartUp \/ StartDockerCleanup \/ StartHealth
    \/ StartCommit \/ StartLogs
    \/ StopDown \/ StopTunnel \/ StopClear
    \/ BuildPrereq \/ BuildCheck \/ BuildRun

SpecDispatch == Init /\ [][NextDispatch]_vars

----------------------------------------------------------------------------

(* StateService on its own: a process constructs the service from whatever  *)
(* the state file holds and calls its mutators in any order                 *)

\* Service calls of one process
MaxOps == 2

\* What a parseable state file can hold: every field present or missing
StateFieldValues ==
    [version : {STATE_VERSION, NoVersion},
     isRunning : BOOLEAN, ngrokPid : {NoPid, 1}, tunnelUrl : {NoUrl, UrlOf(1)},
     startedAt : {NoTime, 1}, dockerDir : {NoDir, AppDockerDir}]

\* Partial<DockerCLIState>: any of the fields, each set or undefined
PartialStates ==
    {[k \in K |-> full[k]] : K \in SUBSET DOMAIN getDefaultState, full \in StateFieldValues}

StateFiles == {AbsentFile, CorruptFile} \cup {JsonFile(s) : s \in StateFieldValues}

InitState ==
    /\ stateFile \in StateFiles
    /\ state = getDefaultState
    /\ entryState = getDefaultState
    /\ cmd = "none"
    /\ pc = "idle"
    /\ opts = DefaultOpts
    /\ invocations = 0
    /\ prevCmd = "none"
    /\ exitCode = -1
    /\ outcome = "none"
    /\ calls = <<>>
    /\ ngrokPid = NoPid
    /\ tunnelUrl = NoUrl
    /\ procs = {}
    /\ spawned = 0
    /\ containerUp = FALSE
    /\ envFile = [exists |-> FALSE, CYRUS_BASE_URL |-> NoUrl]
    /\ image = [exists |-> FALSE, label |-> NoHash]
    /\ toolsCfg = "none"
    /\ imgCheck = NoCheck
    /\ customDockerfile = FALSE
    /\ builtCfg = NoCfg
    /\ call = NoCall

svcFrame == <<opts, invocations, prevCmd, exitCode, outcome, ngrokPid, tunnelUrl,
              procs, spawned, containerUp, envFile, built, toolsCfg, imgCheck,
              call>>

\* A service method of the constructed service is called
SvcCallWithin(op, max) ==
    /\ cmd = "service" /\ pc = "service"
    /\ Len(calls) < max
    /\ Log(Call(op, NoPid, "ok"))
    /\ UNCHANGED <<cmd, pc, entryState, svcFrame>>

SvcCall(op) == SvcCallWithin(op, MaxOps)

\* constructor: this.state = this.load()
SvcConstruct ==
    /\ cmd \in {"none", "service"}
    /\ cmd' = "service"
    /\ pc' = IF loadOutcome(stateFile).raised THEN "threw" ELSE "service"
    /\ state' = load(stateFile)
    /\ entryState' = load(stateFile)
    /\ calls' = <<Call("construct", NoPid, stateFile.kind)>>
    /\ UNCHANGED <<stateFile, svcFrame>>

\* update(updates) with any partial state
SvcUpdate ==
    /\ SvcCall("update")
    /\ state' \in {update(state, updates) : updates \in PartialStates}
    /\ stateFile' \in saveResults(state', stateFile)

\* setRunning(ngrokPid, tunnelUrl, dockerDir) with a pid, a URL and a directory
SvcSetRunning ==
    /\ SvcCall("setRunning")
    /\ \E pid \in {1, 2} :
          state' = setRunning(state, pid, UrlOf(pid), AppDockerDir, 1)
    /\ stateFile' \in saveResults(state', stateFile)

SvcSetStopped ==
    /\ SvcCall("setStopped")
    /\ state' = setStopped(state)
    /\ stateFile' \in saveResults(state', stateFile)

\* reset(): this.state = getDefaultState(); save()
SvcReset ==
    /\ SvcCall("reset")
    /\ state' = getDefaultState
    /\ stateFile' \in saveResults(state', stateFile)

NextState == SvcConstruct \/ SvcUpdate \/ SvcSetRunning \/ SvcSetStopped \/ SvcReset

SpecState == InitState /\ [][NextState]_vars

\* setStopped() called again and again on one service
MaxStops == 3

SvcSetStoppedAgain ==
    /\ SvcCallWithin("setStopped", 1 + MaxStops)
    /\ state' = setStopped(state)
    /\ stateFile' \in saveResults(state', stateFile)

NextStopped == SvcConstruct \/ SvcSetStoppedAgain

SpecStopped == InitState /\ [][NextStopped]_vars

----------------------------------------------------------------------------
(* Service methods on their own: the polling loops and the status queries   *)

\* Everything but the method being run: no CLI process, a fresh installation
noProcess == <<stateFile, state, cmd, pc, opts, invocations, prevCmd, exitCode,
               outcome, calls, entryState, ngrokPid, tunnelUrl, procs, spawned,
               containerUp, envFile, image, toolsCfg, imgCheck, customDockerfile,
               builtCfg>>

NoProcess ==
    /\ stateFile = AbsentFile
    /\ state = getDefaultState
    /\ entryState = getDefaultState
    /\ cmd = "none"
    /\ pc = "idle"
    /\ opts = DefaultOpts
    /\ invocations = 0
    /\ prevCmd = "none"
    /\ exitCode = -1
    /\ outcome = "none"
    /\ calls = <<>>
    /\ ngrokPid = NoPid
    /\ tunnelUrl = NoUrl
    /\ procs = {}
    /\ spawned = 0
    /\ containerUp = FALSE
    /\ envFile = [exists |-> FALSE, CYRUS_BASE_URL |-> NoUrl]
    /\ image = [exists |-> FALSE, label |-> NoHash]
    /\ toolsCfg = "none"
    /\ imgCheck = NoCheck
    /\ customDockerfile = FALSE
    /\ builtCfg = NoCfg

----------------------------------------------------------------------------
(* DockerService.waitForHealthy(timeout, delay)                             *)

\* Largest timeout and delay tried, in clock ticks
MaxTimeout == 4
MaxDelay == 2

\* A clock reading may fall up to this much later than the least possible:
\* the inspect command takes time, a sleep overshoots
MaxLag == 1

\* getStatus() as the loop sees it before the first poll
NoStatus == [running |-> FALSE, health |-> "none"]

InitHealth ==
    /\ NoProcess
    /\ \E timeout \in 0..MaxTimeout, delay \in 1..MaxDelay :
          call = [fn |-> "waitForHealthy", timeout |-> timeout, delay |-> delay,
                  at |-> "while", elapsed |-> 0, polls |-> 0, sleeps |-> 0,
                  status |-> NoStatus, result |-> "pending"]

\* Mutant: the loop test is <= instead of <
HealthWhileInclusive ==
    /\ call.fn = "waitForHealthy" /\ call.at = "while"
    /\ call' = IF call.elapsed <= call.timeout
               THEN [call EXCEPT !.at = "poll"]
               ELSE [call EXCEPT !.at = "done", !.result = "timeout"]
    /\ UNCHANGED noProcess

\* while (Date.now() - startTime < timeout), and the throw after the loop
HealthWhile ==
    /\ call.fn = "waitForHealthy" /\ call.at = "while"
    /\ call' = IF call.elapsed < call.timeout
               THEN [call EXCEPT !.at = "poll"]
               ELSE [call EXCEPT !.at = "done", !.result = "timeout"]
    /\ UNCHANGED noProcess

\* const status = await this.getStatus(), and the three tests of the body
HealthPoll ==
    /\ call.fn = "waitForHealthy" /\ call.at = "poll"
    /\ \E inspectOk \in BOOLEAN, running \in BOOLEAN, health \in Health,
          lag \in 0..MaxLag :
          LET status == getStatus(inspectOk, running, health)
              r == pollHealthy(status)
          IN call' = [call EXCEPT !.status = status,
                                  !.polls = @ + 1,
                                  !.elapsed = @ + lag,
                                  !.at = IF r = "sleep" THEN "sleep" ELSE "done",
                                  !.result = IF r = "sleep" THEN "pending"
                                             ELSE IF r = "healthy" THEN "ok" ELSE r]
    /\ UNCHANGED noProcess

\* await this.sleep(delay)
HealthSleep ==
    /\ call.fn = "waitForHealthy" /\ call.at = "sleep"
    /\ \E lag \in 0..MaxLag :
          call' = [call EXCEPT !.sleeps = @ + 1,
                               !.elapsed = @ + call.delay + lag,
                               !.at = "while"]
    /\ UNCHANGED noProcess

NextHealth == HealthWhile \/ HealthPoll \/ HealthSleep

\* The loop is the only thing running in its process: it is never starved
SpecHealth == InitHealth /\ [][NextHealth]_vars /\ WF_vars(NextHealth)

----------------------------------------------------------------------------
(* TunnelService.getUrl(), getStatus(), isRunning() and                     *)
(* DockerService.getStatus() as functions of what the outside world answers *)

\* Longest tunnel list tried
MaxTunnels == 3

Protos == {"https", "http", "tcp"}

PublicUrls == {"https://a.ngrok.app", "http://b.ngrok.app"}

\* One entry of NgrokTunnelsResponse.tunnels
Tunnels == [proto : Protos, public_url : PublicUrls]

TunnelLists == UNION {[1..n -> Tunnels] : n \in 0..MaxTunnels}

\* What fetch(NGROK_TUNNELS_API) can give: the fetch rejects, the response is
\* not OK, its body is not JSON, the JSON has no tunnels array, or it has one
FailedResponses ==
    {[kind |-> k, tunnels |-> <<>>] :
        k \in {"fetchFails", "notOk", "badJson", "noList"}}

Responses == FailedResponses \cup {[kind |-> "ok", tunnels |-> t] : t \in TunnelLists}

\* data.tunnels.find((t) => t.proto === proto): index of the first match from
\* i on, 0 when there is none
RECURSIVE find(_, _, _)
find(tunnels, proto, i) ==
    IF i > Len(tunnels) THEN 0
    ELSE IF tunnels[i].proto = proto THEN i
    ELSE find(tunnels, proto, i + 1)

\* Mutant: no search for an https tunnel, the first tunnel is returned
getUrlTryFirstOnly(response) ==
    IF response.kind = "fetchFails" THEN Raise(NoUrl)
    ELSE IF response.kind = "notOk" THEN Return(NoUrl)
    ELSE IF response.kind \in {"badJson", "noList"} THEN Raise(NoUrl)
    ELSE IF Len(response.tunnels) > 0
         THEN Return(response.tunnels[1].public_url)
         ELSE Return(NoUrl)

\* The body of the try block of getUrl()
getUrlTry(response) ==
    IF response.kind = "fetchFails" THEN Raise(NoUrl)
    ELSE IF response.kind = "notOk" THEN Return(NoUrl)
    ELSE IF response.kind \in {"badJson", "noList"} THEN Raise(NoUrl)
    ELSE LET httpsTunnel == find(response.tunnels, "https", 1)
         IN IF httpsTunnel > 0
            THEN Return(response.tunnels[httpsTunnel].public_url)
            ELSE IF Len(response.tunnels) > 0
                 THEN Return(response.tunnels[1].public_url)
                 ELSE Return(NoUrl)

getUrl(response) == catchReturn(getUrlTry(response), NoUrl)

\* TunnelService.getStatus(): no try block of its own
TunnelGetStatus(response) ==
    LET url == getUrl(response)
    IN [raised |-> url.raised,
        value |-> [isRunning |-> url.value # NoUrl, url |-> url.value]]

\* TunnelService.isRunning()
TunnelIsRunning(response) ==
    LET status == TunnelGetStatus(response)
    IN [raised |-> status.raised, value |-> status.value.isRunning]

\* State.Health.Status as docker reports it; "absent" is a container without
\* a health check, "paused" stands for any string the switch does not know
HealthStatuses == {"healthy", "unhealthy", "starting", "absent", "paused"}

normalizeHealth(status) ==
    IF status \in {"healthy", "unhealthy", "starting"} THEN status ELSE "none"

\* What docker inspect can give: the command fails (no container, no engine),
\* its output is not JSON (empty output included), an empty array, an entry
\* without State or Id, or a full entry
Inspects ==
    [kind : {"commandFails", "unparseable", "emptyArray", "malformed", "ok"},
     Running : BOOLEAN, Status : HealthStatuses]

\* The body of the try block of DockerService.getStatus()
getStatusTry(inspect) ==
    IF inspect.kind \in {"commandFails", "unparseable", "malformed"}
    THEN Raise(NoStatus)
    ELSE IF inspect.kind = "emptyArray" THEN Return(NoStatus)
    ELSE Return(getStatus(TRUE, inspect.Running, normalizeHealth(inspect.Status)))

DockerGetStatus(inspect) == catchReturn(getStatusTry(inspect), NoStatus)

Queries == {"getUrl", "tunnel.getStatus", "tunnel.isRunning", "docker.getStatus"}

InitQuery ==
    /\ NoProcess
    /\ \E fn \in Queries :
          \E input \in IF fn = "docker.getStatus" THEN Inspects ELSE Responses :
             call = [fn |-> fn, at |-> "call", input |-> input]

Answered(out) ==
    call' = [fn |-> call.fn, at |-> "done", input |-> call.input, out |-> out]

QueryGetUrl ==
    /\ call.fn = "getUrl" /\ call.at = "call"
    /\ Answered(getUrl(call.input))
    /\ UNCHANGED noProcess

QueryTunnelStatus ==
    /\ call.fn = "tunnel.getStatus" /\ call.at = "call"
    /\ Answered(TunnelGetStatus(call.input))
    /\ UNCHANGED noProcess

QueryIsRunning ==
    /\ call.fn = "tunnel.isRunning" /\ call.at = "call"
    /\ Answered(TunnelIsRunning(call.input))
    /\ UNCHANGED noProcess

QueryDockerStatus ==
    /\ call.fn = "docker.getStatus" /\ call.at = "call"
    /\ Answered(DockerGetStatus(call.input))
    /\ UNCHANGED noProcess

NextQuery == QueryGetUrl \/ QueryTunnelStatus \/ QueryIsRunning \/ QueryDockerStatus

SpecQuery == InitQuery /\ [][NextQuery]_vars

----------------------------------------------------------------------------
(* TunnelService.waitForUrl(maxRetries, delay)                              *)

\* Largest maxRetries tried
MaxRetries == 5

InitWaitUrl ==
    /\ NoProcess
    /\ \E maxRetries \in 0..MaxRetries, delay \in 1..MaxDelay :
          call = [fn |-> "waitForUrl", maxRetries |-> maxRetries,
                  delay |-> delay, at |-> "for", i |-> 0, answers |-> <<>>,
                  slept |-> 0, url |-> NoUrl, result |-> "pending"]

\* Mutant: the loop test is <= instead of <
WaitUrlForInclusive ==
    /\ call.fn = "waitForUrl" /\ call.at = "for"
    /\ call' = IF call.i <= call.maxRetries
               THEN [call EXCEPT !.at = "query"]
               ELSE [call EXCEPT !.at = "done", !.result = "timeout"]
    /\ UNCHANGED noProcess

\* for (let i = 0; i < maxRetries; i++), and the throw after the loop
WaitUrlFor ==
    /\ call.fn = "waitForUrl" /\ call.at = "for"
    /\ call' = IF call.i < call.maxRetries
               THEN [call EXCEPT !.at = "query"]
               ELSE [call EXCEPT !.at = "done", !.result = "timeout"]
    /\ UNCHANGED noProcess

\* const url = await this.getUrl(); if (url) return url
WaitUrlQuery ==
    /\ call.fn = "waitForUrl" /\ call.at = "query"
    /\ \E response \in Responses :
          LET url == getUrl(response)
          IN call' = IF url.raised
                     THEN [call EXCEPT !.at = "done", !.result = "exception"]
                     ELSE [call EXCEPT
                             !.answers = Append(@, url.value),
                             !.url = url.value,
                             !.at = IF url.value # NoUrl THEN "done" ELSE "sleep",
                             !.result = IF url.value # NoUrl THEN "ok" ELSE "pending"]
    /\ UNCHANGED noProcess

\* await this.sleep(delay), then i++
WaitUrlSleep ==
    /\ call.fn = "waitForUrl" /\ call.at = "sleep"
    /\ call' = [call EXCEPT !.slept = @ + call.delay, !.i = @ + 1, !.at = "for"]
    /\ UNCHANGED noProcess

NextWaitUrl == WaitUrlFor \/ WaitUrlQuery \/ WaitUrlSleep

SpecWaitUrl == InitWaitUrl /\ [][NextWaitUrl]_vars

----------------------------------------------------------------------------
(* DockerService.readEnvFile(), writeEnvFile(config), updateEnvValue(k, v)  *)
(* on the text of .env.docker and of the template .env.docker.example       *)

\* Two of the keys of EnvConfig.  A key is one token of the text.
EnvKeys == {"CYRUS_BASE_URL", "GITHUB_TOKEN"}

\* Object.entries(config): the keys in the order they are visited
KeyOrder == <<"CYRUS_BASE_URL", "GITHUB_TOKEN">>

\* The characters a value is made of
ValueChars == {"a", "=", " ", "$", "&"}

\* Longest value tried
MaxValueLen == 2

\* A value is a string; the empty one also stands for undefined
EnvValues == UNION {[1..n -> ValueChars] : n \in 0..MaxValueLen}

EnvConfigs == [EnvKeys -> EnvValues]

NoEnvConfig == [k \in EnvKeys |-> <<>>]

\* The line separator of the text
LF == "LF"

\* text.indexOf(c) from position i on, 0 when there is none
RECURSIVE indexOf(_, _, _)
indexOf(text, c, i) ==
    IF i > Len(text) THEN 0
    ELSE IF text[i] = c THEN i
    ELSE indexOf(text, c, i + 1)

\* text.split(sep)
RECURSIVE split(_, _)
split(text, sep) ==
    LET j == indexOf(text, sep, 1)
    IN IF j = 0 THEN <<text>>
       ELSE <<SubSeq(text, 1, j - 1)>> \o split(SubSeq(text, j + 1, Len(text)), sep)

\* parts.join(sep)
RECURSIVE join(_, _)
join(parts, sep) ==
    IF Len(parts) = 0 THEN <<>>
    ELSE IF Len(parts) = 1 THEN parts[1]
    ELSE parts[1] \o <<sep>> \o join(Tail(parts), sep)

\* line.trim()
RECURSIVE trim(_)
trim(line) ==
    IF Len(line) = 0 THEN line
    ELSE IF line[1] = " " THEN trim(Tail(line))
    ELSE IF line[Len(line)] = " " THEN trim(SubSeq(line, 1, Len(line) - 1))
    ELSE line

\* The loop of readEnvFile() over the lines from i on
RECURSIVE readLines(_, _, _)
readLines(lines, i, config) ==
    IF i > Len(lines) THEN config
    ELSE LET trimmed == trim(lines[i])
         IN IF Len(trimmed) = 0 \/ trimmed[1] = "#"
            THEN readLines(lines, i + 1, config)
            ELSE LET parts == split(trimmed, "=")
                     key == parts[1]
                     value == join(Tail(parts), "=")
                 IN IF Len(key) = 1 /\ key[1] \in EnvKeys
                    THEN readLines(lines, i + 1, [config EXCEPT ![key[1]] = value])
                    ELSE readLines(lines, i + 1, config)

\* readEnvFile(): {} without a file
readEnvFile(file) ==
    IF ~file.exists THEN NoEnvConfig
    ELSE readLines(split(file.content, LF), 1, NoEnvConfig)

\* new RegExp(`^${key}=.*$`, "m"): the first line that starts with key=, 0
\* when there is none
RECURSIVE matchLine(_, _, _)
matchLine(lines, key, i) ==
    IF i > Len(lines) THEN 0
    ELSE IF Len(lines[i]) >= 2 /\ lines[i][1] = key /\ lines[i][2] = "="
         THEN i
         ELSE matchLine(lines, key, i + 1)

\* The replacement string of content.replace(regex, replacement) as replace
\* expands it: $$ gives $, $& gives the matched text
RECURSIVE expand(_, _)
expand(replacement, matched) ==
    IF Len(replacement) = 0 THEN <<>>
    ELSE IF replacement[1] = "$" /\ Len(replacement) >= 2 /\ replacement[2] = "$"
         THEN <<"$">> \o expand(SubSeq(replacement, 3, Len(replacement)), matched)
    ELSE IF replacement[1] = "$" /\ Len(replacement) >= 2 /\ replacement[2] = "&"
         THEN matched \o expand(SubSeq(replacement, 3, Len(replacement)), matched)
    ELSE <<replacement[1]>> \o expand(Tail(replacement), matched)

\* One turn of the loop of writeEnvFile(): the line of the key is replaced,
\* or key=value is added at the end
writeKey(content, key, value) ==
    IF Len(value) = 0 THEN content
    ELSE LET lines == split(content, LF)
             at == matchLine(lines, key, 1)
         IN IF at > 0
            THEN join([lines EXCEPT ![at] = expand(<<key, "=">> \o value, lines[at])], LF)
            ELSE content \o <<LF, key, "=">> \o value

RECURSIVE writeKeys(_, _, _)
writeKeys(content, config, i) ==
    IF i > Len(KeyOrder) THEN content
    ELSE writeKeys(writeKey(content, KeyOrder[i], config[KeyOrder[i]]), config, i + 1)

\* writeEnvFile(config): the text written to .env.docker, from the template
\* when there is one
writeEnvFile(config, template) ==
    [exists |-> TRUE,
     content |-> writeKeys(IF template.exists THEN template.content ELSE <<>>,
                           config, 1)]

\* updateEnvValue(key, value)
updateEnvValue(file, template, key, value) ==
    writeEnvFile([readEnvFile(file) EXCEPT ![key] = value], template)

\* Lines a template or a hand-edited env file is made of
TextLines ==
    {<<"#", "a">>,
     <<"CYRUS_BASE_URL", "=">>,
     <<"GITHUB_TOKEN", "=">>,
     <<"GITHUB_TOKEN", "=", "a">>,
     <<" ", "GITHUB_TOKEN", "=", "a">>}

\* Longest template tried, in lines
MaxLines == 2

NoFile == [exists |-> FALSE, content |-> <<>>]

TextFiles ==
    {NoFile} \cup
    {[exists |-> TRUE, content |-> join(ls, LF)] :
        ls \in UNION {[1..n -> TextLines] : n \in 0..MaxLines}}

\* writeEnvFile(config) followed by readEnvFile()
InitEnv ==
    /\ NoProcess
    /\ \E config \in EnvConfigs, template \in TextFiles :
          call = [fn |-> "writeEnvFile", at |-> "write", config |-> config,
                  template |-> template, file |-> NoFile, read |-> NoEnvConfig]

EnvWrite ==
    /\ call.fn = "writeEnvFile" /\ call.at = "write"
    /\ call' = [call EXCEPT !.file = writeEnvFile(call.config, call.template),
                            !.at = "read"]
    /\ UNCHANGED noProcess

EnvRead ==
    /\ call.fn = "writeEnvFile" /\ call.at = "read"
    /\ call' = [call EXCEPT !.read = readEnvFile(call.file), !.at = "done"]
    /\ UNCHANGED noProcess

NextEnv == EnvWrite \/ EnvRead

SpecEnv == InitEnv /\ [][NextEnv]_vars

----------------------------------------------------------------------------

(* DockerService.updateEnvValue(key, value) on an env file written earlier  *)

\* Longest new value tried
MaxNewLen == 1

NewValues == {v \in EnvValues : Len(v) <= MaxNewLen}

\* .env.docker as the setup wizard wrote it, or edited by hand
EnvFiles == {writeEnvFile(config, NoFile) : config \in EnvConfigs} \cup TextFiles

InitEnvUpdate ==
    /\ NoProcess
    /\ \E file \in EnvFiles, template \in TextFiles, key \in EnvKeys,
          value \in NewValues :
          call = [fn |-> "updateEnvValue", at |-> "update", key |-> key,
                  value |-> value, template |-> template, file |-> file,
                  before |-> readEnvFile(file), read |-> NoEnvConfig]

EnvUpdate ==
    /\ call.fn = "updateEnvValue" /\ call.at = "update"
    /\ call' = [call EXCEPT
                  !.file = updateEnvValue(call.file, call.template, call.key, call.value),
                  !.at = "read"]
    /\ UNCHANGED noProcess

EnvUpdateRead ==
    /\ call.fn = "updateEnvValue" /\ call.at = "read"
    /\ call' = [call EXCEPT !.read = readEnvFile(call.file), !.at = "done"]
    /\ UNCHANGED noProcess

NextEnvUpdate == EnvUpdate \/ EnvUpdateRead

SpecEnvUpdate == InitEnvUpdate /\ [][NextEnvUpdate]_vars

----------------------------------------------------------------------------

(* The build call on its own: readConfig() over what tools.yml may hold,   *)
(* then the choice between buildWithTools and build                        *)

\* Tool configs a tools.yml may hold
BuildConfigs ==
    [presets : {<<>>, <<"nodejs">>, <<"python">>, <<"nodejs", "ruby">>},
     apt : {<<>>, <<"git">>},
     npm : {<<>>, <<"typescript">>},
     pip : {<<>>, <<"pytest">>},
     cargo : {<<>>, <<"ripgrep">>},
     commands : {<<>>, <<"make">>},
     customDockerfile : {NoPath, "Dockerfile.dev"}]

ToolsFiles ==
    {NoToolsFile, CorruptToolsFile, EmptyToolsFile} \cup
    {YamlFile(config) : config \in BuildConfigs}

InitBuildCall ==
    /\ NoProcess
    /\ \E file \in ToolsFiles :
          call = [fn |-> "buildCall", at |-> "call", file |-> file,
                  toolConfig |-> NoToolConfig, used |-> "none"]

\* toolConfig = readConfig(), then the build call
BuildCall ==
    /\ call.fn = "buildCall" /\ call.at = "call"
    /\ call' = [call EXCEPT !.toolConfig = readConfig(call.file),
                            !.used = buildCall(readConfig(call.file)),
                            !.at = "done"]
    /\ UNCHANGED noProcess

NextBuildCall == BuildCall

SpecBuildCall == InitBuildCall /\ [][NextBuildCall]_vars

----------------------------------------------------------------------------

(* resolveConfig on its own: one call over a bounded tool config *)

InitResolve ==
    /\ NoProcess
    /\ \E config \in ToolConfigs :
          call = [fn |-> "resolveConfig", at |-> "call", config |-> config,
                  resolved |-> [f \in PackageLists \cup {"commands"} |-> <<>>]
                               @@ [customDockerfile |-> NoPath]]

Resolve ==
    /\ call.fn = "resolveConfig" /\ call.at = "call"
    /\ call' = [call EXCEPT !.resolved = resolveConfig(call.config), !.at = "done"]
    /\ UNCHANGED noProcess

NextResolve == Resolve

SpecResolve == InitResolve /\ [][NextResolve]_vars

----------------------------------------------------------------------------

(* TunnelService.stop(pid)                                                  *)

\* Largest process id tried
MaxPid == 4

Pids == 1..MaxPid

\* What process.kill(pid, "SIGTERM") can answer: a live process takes the
\* signal or belongs to someone else, a dead one gives ESRCH
killResults(pid, live) == IF pid \in live THEN {"ok", "EPERM"} ELSE {"ESRCH"}

\* process.kill: returns, or throws an error with the code
kill(r) == IF r = "ok" THEN Return("ok") ELSE Raise(r)

\* Mutant: the catch block swallows every error
stopSwallowsAll(r) ==
    IF ~kill(r).raised THEN Return("stopped") ELSE Return("already stopped")

\* try { process.kill } catch: ESRCH is a warning, anything else is rethrown
stop(r) ==
    IF ~kill(r).raised THEN Return("stopped")
    ELSE IF kill(r).value = "ESRCH" THEN Return("already stopped")
    ELSE kill(r)

InitTunnelStop ==
    /\ NoProcess
    /\ \E pid \in Pids, live \in SUBSET Pids :
          call = [fn |-> "tunnel.stop", at |-> "call", pid |-> pid, live |-> live,
                  signal |-> <<>>, kill |-> "none", out |-> Return("none")]

TunnelStop ==
    /\ call.fn = "tunnel.stop" /\ call.at = "call"
    /\ \E r \in killResults(call.pid, call.live) :
          call' = [call EXCEPT
                     !.signal = <<call.pid, "SIGTERM">>,
                     !.kill = r,
                     !.live = IF r = "ok" THEN @ \ {call.pid} ELSE @,
                     !.out = stop(r),
                     !.at = "done"]
    /\ UNCHANGED noProcess

NextTunnelStop == TunnelStop

SpecTunnelStop == InitTunnelStop /\ [][NextTunnelStop]_vars

----------------------------------------------------------------------------

(* DockerService.buildWithTools step by step: the four commands it runs,   *)
(* each of which may fail and throw out of the method                      *)

\* The image tags and labels docker may hold before the call
Images == [exists : {TRUE}, label : {NoHash, "hashA", "hashB"}]
             \cup {[exists |-> FALSE, label |-> NoHash]}

\* toolsHash?: string | null
ToolsHashes == {NoHash, "hashA", "hashB"}

\* if (toolsHash) buildArgs.push("--label", `${TOOLS_HASH_LABEL}=${toolsHash}`)
labelArgsNever(toolsHash) == <<>>

labelArgs(toolsHash) == IF toolsHash # NoHash THEN <<"--label", toolsHash>> ELSE <<>>

\* The label docker build puts on the image it builds with these arguments
labelOf(args) == IF Len(args) = 2 /\ args[1] = "--label" THEN args[2] ELSE NoHash

\* execa(...) of one step: the step is logged; a failing command throws
stepDone(c, step, args, ok, next) ==
    [c EXCEPT !.steps = Append(@, [step |-> step, args |-> args, ok |-> ok]),
              !.at = IF ok THEN next ELSE "threw"]

InitBuildWithTools ==
    /\ NoProcess
    /\ \E toolsHash \in ToolsHashes, latest \in Images, dockerfile \in BOOLEAN :
          call = [fn |-> "buildWithTools", at |-> "base", toolsHash |-> toolsHash,
                  latest |-> latest, base |-> FALSE, dockerfile |-> dockerfile,
                  entry |-> [latest |-> latest, dockerfile |-> dockerfile],
                  steps |-> <<>>]

\* docker compose build: the plain image becomes cyrus-ai/cyrus:latest
BwtComposeBuild ==
    /\ call.fn = "buildWithTools" /\ call.at = "base"
    /\ \E ok \in BOOLEAN :
          call' = [stepDone(call, "composeBuild", <<>>, ok, "tag")
                     EXCEPT !.latest = IF ok THEN [exists |-> TRUE, label |-> NoHash]
                                       ELSE @]
    /\ UNCHANGED noProcess

\* docker tag cyrus-ai/cyrus:latest cyrus-ai/cyrus:base
BwtTag ==
    /\ call.fn = "buildWithTools" /\ call.at = "tag"
    /\ \E ok \in BOOLEAN :
          call' = [stepDone(call, "tag", <<>>, ok, "write")
                     EXCEPT !.base = IF ok THEN TRUE ELSE @]
    /\ UNCHANGED noProcess

\* generateDockerfile(toolConfig, baseImageName), mkdirSync, writeFileSync
BwtWrite ==
    /\ call.fn = "buildWithTools" /\ call.at = "write"
    /\ \E ok \in BOOLEAN :
          call' = [stepDone(call, "write", <<>>, ok, "final")
                     EXCEPT !.dockerfile = IF ok THEN TRUE ELSE @]
    /\ UNCHANGED noProcess

\* docker build -f Dockerfile.custom -t cyrus-ai/cyrus:latest [--label ...] .
BwtFinalBuild ==
    /\ call.fn = "buildWithTools" /\ call.at = "final"
    /\ \E ok \in BOOLEAN :
          LET args == labelArgs(call.toolsHash)
          IN call' = [stepDone(call, "finalBuild", args, ok, "done")
                        EXCEPT !.latest = IF ok THEN [exists |-> TRUE,
                                                      label |-> labelOf(args)]
                                          ELSE @]
    /\ UNCHANGED noProcess

NextBuildWithTools == BwtComposeBuild \/ BwtTag \/ BwtWrite \/ BwtFinalBuild

SpecBuildWithTools == InitBuildWithTools /\ [][NextBuildWithTools]_vars

----------------------------------------------------------------------------

(* ToolConfigService.generateDockerfile(config, baseImage): the lines of   *)
(* the Dockerfile, joined with newlines by the code                        *)

\* One line of the file: the instruction word it starts with ("" when it
\* starts with none), the words after it, and whether it ends with the
\* continuation backslash
Line(ins, words, cont) == [ins |-> ins, words |-> words, cont |-> cont]

Comment(text) == Line("#", <<text>>, FALSE)

Blank == Line("", <<>>, FALSE)

\* for (i...) lines.push(`    ${config.apt[i]} \\`): one continued line per
\* package
aptLines(apt) == [i \in DOMAIN apt |-> Line("", <<apt[i]>>, TRUE)]

\* The RUN block of the APT packages
aptBlock(apt) ==
    IF Len(apt) > 0
    THEN <<Comment("Install APT packages"),
           Line("RUN", <<"apt-get update && apt-get install -y --no-install-recommends">>,
                TRUE)>>
         \o aptLines(apt)
         \o <<Line("", <<"&& rm -rf /var/lib/apt/lists/*">>, FALSE), Blank>>
    ELSE <<>>

\* `RUN <installer> ${list.join(" ")}`: the block of the pip, npm or cargo
\* packages
joinedBlock(list, title, installer) ==
    IF Len(list) > 0
    THEN <<Comment(title), Line("RUN", <<installer>> \o list, FALSE), Blank>>
    ELSE <<>>

\* for (const cmd of config.commands) lines.push(`RUN ${cmd}`)
commandLines(commands) == [i \in DOMAIN commands |-> Line("RUN", <<commands[i]>>, FALSE)]

commandBlock(commands) ==
    IF Len(commands) > 0
    THEN <<Comment("Custom commands")>> \o commandLines(commands) \o <<Blank>>
    ELSE <<>>

generateDockerfileNpmFirst(config, baseImage) ==
    <<Comment("Auto-generated from ~/.cyrus-docker/tools.yml"),
      Comment("Do not edit - regenerated on each build"),
      Line("FROM", <<baseImage>>, FALSE), Blank>>
    \o aptBlock(config.apt)
    \o joinedBlock(config.npm, "Install global npm packages", "npm install -g")
    \o joinedBlock(config.pip, "Install Python packages", "pip3 install --no-cache-dir")
    \o joinedBlock(config.cargo, "Install Rust crates", "cargo install")
    \o commandBlock(config.commands)

generateDockerfile(config, baseImage) ==
    <<Comment("Auto-generated from ~/.cyrus-docker/tools.yml"),
      Comment("Do not edit - regenerated on each build"),
      Line("FROM", <<baseImage>>, FALSE), Blank>>
    \o aptBlock(config.apt)
    \o joinedBlock(config.pip, "Install Python packages", "pip3 install --no-cache-dir")
    \o joinedBlock(config.npm, "Install global npm packages", "npm install -g")
    \o joinedBlock(config.cargo, "Install Rust crates", "cargo install")
    \o commandBlock(config.commands)

\* Package lists as resolveConfig leaves them: no package twice
PackagesOver(S) == {l \in ListsOver(S) : \A i, j \in DOMAIN l : l[i] = l[j] => i = j}

\* Resolved configs the Dockerfile is generated for
ResolvedConfigs ==
    [apt : PackagesOver({"git", "vim"}),
     pip : PackagesOver({"pytest"}),
     npm : PackagesOver({"typescript"}),
     cargo : PackagesOver({"ripgrep"}),
     commands : ListsOver({"make", "gem install bundler"}),
     customDockerfile : {NoPath}]

\* `${IMAGE_NAME}:base`
BaseImageName == "cyrus-ai/cyrus:base"

InitDockerfile ==
    /\ NoProcess
    /\ \E config \in ResolvedConfigs :
          call = [fn |-> "generateDockerfile", at |-> "call", config |-> config,
                  lines |-> <<>>]

Generate ==
    /\ call.fn = "generateDockerfile" /\ call.at = "call"
    /\ call' = [call EXCEPT !.lines = generateDockerfile(call.config, BaseImageName),
                            !.at = "done"]
    /\ UNCHANGED noProcess

NextDockerfile == Generate

SpecDockerfile == InitDockerfile /\ [][NextDockerfile]_vars

----------------------------------------------------------------------------

(* Reading the call log *)

HasCall(op, res) == \E i \in DOMAIN calls : calls[i].op = op /\ calls[i].res = res

HasOp(op) == \E i \in DOMAIN calls : calls[i].op = op

LastCall == calls[Len(calls)]

\* The tunnel process started by this invocation (NoPid when none was)
StartedPid ==
    IF HasCall("tunnel.start", "ok")
    THEN calls[CHOOSE i \in DOMAIN calls : calls[i].op = "tunnel.start"].arg
    ELSE NoPid

BuildOps == {"build", "buildWithTools"}

Ended == pc = "idle" /\ cmd # "none"

----------------------------------------------------------------------------
(* C1: in the start flow the state is set to isRunning=true only after       *)
(* compose up returned successfully in the same invocation, and a flow that  *)
(* ends on a failure of preflight, the env-file check, the tunnel start, the *)
(* URL acquisition, the build or compose up has never set it.                *)

C1_SetsRunning ==
    \/ state'.isRunning /\ state' # state
    \/ stateFile'.kind = "json" /\ stateFile'.data.isRunning /\ stateFile' # stateFile

C1_Step == (pc # "idle" /\ C1_SetsRunning) => (cmd = "start" /\ HasCall("up", "ok"))

C1_FailedEnd ==
    (Ended /\ cmd = "start" /\ exitCode = 1)
        => /\ ~HasOp("setRunning")
           /\ ~HasCall("up", "ok")
           /\ state.isRunning => state = entryState
           /\ (stateFile.kind = "json" /\ stateFile.data.isRunning)
                 => load(stateFile) = entryState

C1_RunningOnlyAfterUp == [][C1_Step]_vars /\ []C1_FailedEnd

\* a start flow that marked the state running after a successful compose up
C1_Witness ==
    /\ Ended /\ cmd = "start" /\ outcome = "success"
    /\ state.isRunning /\ ~entryState.isRunning
    /\ HasCall("up", "ok")

----------------------------------------------------------------------------
(* C2: the start flow issues its steps in the order tunnel start, wait for  *)
(* URL, env update, image check / build, compose up, health wait, persist   *)
(* state; each step is issued only right after the successful step before   *)
(* it, so compose up never precedes the env update with this invocation's   *)
(* URL and nothing but the tunnel cleanup follows an aborting step.         *)

C2_PrevOk(i) ==
    LET c == calls[i]
        b == calls[i - 1]
    IN  CASE c.op = "tunnel.start" -> b.op = "hasEnvFile" /\ b.res = "yes"
          [] c.op = "waitForUrl" -> b.op = "tunnel.start" /\ b.res = "ok"
          [] c.op = "updateEnvValue" -> b.op = "waitForUrl" /\ b.res = "ok"
          [] c.op = "checkImageStatus" ->
                 b.op = "updateEnvValue" /\ b.res = "ok" /\ ~opts.build
          [] c.op \in BuildOps ->
                 \/ b.op = "checkImageStatus" /\ b.res = "rebuild"
                 \/ b.op = "updateEnvValue" /\ b.res = "ok" /\ opts.build
          [] c.op = "up" ->
                 \/ b.op \in BuildOps /\ b.res = "ok"
                 \/ b.op = "checkImageStatus" /\ b.res = "skip"
          [] c.op = "waitForHealthy" -> b.op = "up" /\ b.res = "ok"
          [] c.op = "setRunning" -> b.op = "waitForHealthy"
          [] c.op = "logs" -> b.op = "setRunning"
          [] c.op = "tunnel.stop" ->
                 \/ b.op = "waitForUrl" /\ b.res = "timeout"
                 \/ b.op \in BuildOps \cup {"up"} /\ b.res = "throws"
          [] OTHER -> TRUE

C2_StartOrder ==
    cmd = "start" =>
        /\ \A i \in DOMAIN calls : i > 1 => C2_PrevOk(i)
        /\ HasOp("up") =>
              /\ HasCall("updateEnvValue", "ok")
              /\ tunnelUrl # NoUrl
              /\ envFile.CYRUS_BASE_URL = tunnelUrl

\* a start flow that went through every step
C2_Witness ==
    /\ Ended /\ cmd = "start" /\ outcome = "success"
    /\ HasOp("buildWithTools") /\ HasOp("checkImageStatus")
    /\ HasOp("waitForHealthy") /\ HasOp("setRunning")

----------------------------------------------------------------------------
(* C3: when waiting for the tunnel URL fails, the tunnel process started in *)
(* this invocation is sent a termination signal before the flow ends, and   *)
(* the flow ends with exit code 1 without updating the env file, building,   *)
(* starting the container or marking the state running.                      *)

C3_UrlFailureCleansUp ==
    (cmd = "start" /\ HasCall("waitForUrl", "timeout")) =>
        /\ StartedPid # NoPid
        /\ ~HasOp("updateEnvValue") /\ ~HasOp("checkImageStatus")
        /\ \A op \in BuildOps \cup {"up", "setRunning"} : ~HasOp(op)
        /\ ~state.isRunning
        /\ \/ pc = "urlCleanup" /\ LastCall.op = "waitForUrl"
           \/ /\ Ended /\ exitCode = 1
              /\ LastCall.op = "tunnel.stop" /\ LastCall.arg = StartedPid

\* the URL wait timed out and the tunnel was signalled
C3_Witness ==
    /\ Ended /\ cmd = "start" /\ outcome = "urlTimeout"
    /\ HasCall("waitForUrl", "timeout") /\ LastCall.op = "tunnel.stop"

----------------------------------------------------------------------------
(* C4: when the image build or compose up fails in the start flow, the      *)
(* tunnel process started earlier in this invocation is sent a termination  *)
(* signal and the flow then ends with exit code 1 and the state not marked  *)
(* running.                                                                  *)

C4_DockerFailed == \E op \in BuildOps \cup {"up"} : HasCall(op, "throws")

C4_DockerFailureCleansUp ==
    (cmd = "start" /\ C4_DockerFailed) =>
        /\ StartedPid # NoPid
        /\ ~HasOp("setRunning") /\ ~HasOp("waitForHealthy")
        /\ ~state.isRunning
        /\ \/ pc = "dockerCleanup" /\ LastCall.res = "throws"
           \/ /\ Ended /\ exitCode = 1
              /\ LastCall.op = "tunnel.stop" /\ LastCall.arg = StartedPid

\* compose up failed after a successful build and the tunnel was signalled
C4_Witness ==
    /\ Ended /\ cmd = "start" /\ outcome = "dockerFail"
    /\ HasCall("up", "throws") /\ LastCall.op = "tunnel.stop"

\* the build failed and the tunnel was signalled
C4_WitnessBuild ==
    /\ Ended /\ cmd = "start" /\ outcome = "dockerFail"
    /\ HasCall("buildWithTools", "throws") /\ LastCall.op = "tunnel.stop"

----------------------------------------------------------------------------
(* C5: the stop flow always attempts the container teardown and the tunnel  *)
(* termination and ends, whatever the two did, with the state cleared; and  *)
(* a start flow run right after a completed stop flow never takes the       *)
(* already-running short-circuit.                                           *)

C5_StopClears ==
    (Ended /\ cmd = "stop") =>
        /\ exitCode = 0
        /\ HasOp("down")
        /\ entryState.ngrokPid # NoPid => HasOp("tunnel.stop")
        /\ LastCall.op = "setStopped"
        /\ state = getDefaultState

C5_StopNeverBlocksStart ==
    /\ C5_StopClears
    /\ (cmd = "start" /\ prevCmd = "stop") => outcome # "already"

----------------------------------------------------------------------------
(* C6: when the start flow finds the state running and the live container  *)
(* status running, it returns success at once: no tunnel is started, the    *)
(* env file, the image and the compose stack are not touched and the state  *)
(* and its file are unchanged.                                              *)

C6_FoundRunning == cmd = "start" /\ HasCall("getStatus", "running")

C6_ShortCircuit ==
    C6_FoundRunning =>
        /\ Ended /\ exitCode = 0 /\ outcome = "already"
        /\ calls = <<Call("checkPrerequisites", NoPid, "ok"),
                     Call("getStatus", NoPid, "running")>>
        /\ state = entryState /\ state.isRunning
        /\ stateFile = JsonFile(entryState)
        /\ ngrokPid = NoPid /\ tunnelUrl = NoUrl

C6_Frame ==
    (cmd = "start" /\ pc = "checkRunning" /\ state.isRunning /\ pc' = "idle")
        => UNCHANGED <<state, stateFile, procs, spawned, envFile, image, containerUp>>

C6_AlreadyRunningIsNoOp == []C6_ShortCircuit /\ [][C6_Frame]_vars

\* a start flow that found the system running
C6_Witness == C6_FoundRunning /\ Ended /\ containerUp /\ entryState.ngrokPid \in procs

----------------------------------------------------------------------------
(* C7: when the start flow finds the state running but the live container  *)
(* status not running, it clears the state right away, before the env-file  *)
(* check and before a tunnel is started, so that the state is not running   *)
(* wherever the invocation aborts later.                                    *)

C7_FoundStale == cmd = "start" /\ HasCall("getStatus", "notRunning")

----------------------------------------------------------------------------
(* C8: once compose up succeeded in the start flow, every outcome of the    *)
(* health gate (healthy, stopped, unhealthy, timeout) leads to the state    *)
(* being marked running and to the success report; a health failure never   *)
(* aborts the flow and never stops the tunnel.                              *)

C8_HealthResults == {"healthy", "stopped", "unhealthy", "timeout"}

C8_HealthGateNeverFatal ==
    (cmd = "start" /\ HasOp("waitForHealthy")) =>
        /\ HasCall("up", "ok")
        /\ pc \in {"commit", "logs", "idle"}
        /\ ~HasOp("tunnel.stop")
        /\ pc # "commit" =>
              /\ HasOp("setRunning")
              /\ state = setRunning(getDefaultState, StartedPid, tunnelUrl,
                                    AppDockerDir, invocations)
        /\ Ended => exitCode = 0 /\ outcome = "success"

\* the success report after a failed health gate
C8_Witness ==
    /\ Ended /\ cmd = "start" /\ outcome = "success"
    /\ HasCall("waitForHealthy", "unhealthy")

C8_WitnessTimeout == Ended /\ cmd = "start" /\ HasCall("waitForHealthy", "timeout")

C8_WitnessStopped == Ended /\ cmd = "start" /\ HasCall("waitForHealthy", "stopped")

----------------------------------------------------------------------------
(* C9: in every state of the state service, after construction from any     *)
(* state-file content and after any sequence of update, setRunning,          *)
(* setStopped and reset, isRunning=true implies that ngrokPid, tunnelUrl,    *)
(* startedAt and dockerDir are all present and isRunning=false implies that  *)
(* all four are absent.                                                      *)

StateInvariant(s) ==
    /\ s.isRunning => /\ s.ngrokPid # NoPid /\ s.tunnelUrl # NoUrl
                      /\ s.startedAt # NoTime /\ s.dockerDir # NoDir
    /\ ~s.isRunning => /\ s.ngrokPid = NoPid /\ s.tunnelUrl = NoUrl
                       /\ s.startedAt = NoTime /\ s.dockerDir = NoDir

C9_InvariantAlways == cmd = "service" => StateInvariant(state)

(* C9 as amended: the invariant holds right after construction from a       *)
(* missing or unparseable state file and right after every setRunning,      *)
(* setStopped and reset, whatever the state was before.                      *)

C9_Establishes ==
    \/ LastCall.op \in {"setRunning", "setStopped", "reset"}
    \/ LastCall.op = "construct" /\ LastCall.res \in {"absent", "corrupt"}

C9_InvariantAfterSetters ==
    (cmd = "service" /\ C9_Establishes) => StateInvariant(state)

\* setStopped called on a state that broke the invariant
C9_Witness ==
    /\ cmd = "service" /\ Len(calls) = 2
    /\ ~StateInvariant(entryState) /\ entryState.tunnelUrl # NoUrl
    /\ LastCall.op = "setStopped"

C9_WitnessRunning ==
    /\ cmd = "service" /\ Len(calls) = 2
    /\ ~StateInvariant(entryState) /\ LastCall.op = "setRunning"

----------------------------------------------------------------------------
(* C10: checkImageStatus(currentHash) returns the pair of the ordered       *)
(* decision table for every combination of image exists / absent, current   *)
(* hash null / set and image label absent / equal / different.              *)

C10_Expected(exists, imageHash, currentHash) ==
    CASE ~exists -> <<TRUE, "Image does not exist">>
      [] exists /\ currentHash = NoHash /\ imageHash # NoHash ->
             <<TRUE, "Tools configuration removed">>
      [] exists /\ currentHash = NoHash /\ imageHash = NoHash ->
             <<FALSE, "Image up to date (no tools)">>
      [] exists /\ currentHash # NoHash /\ imageHash = NoHash ->
             <<TRUE, "Image missing tools hash label">>
      [] exists /\ currentHash # NoHash /\ imageHash # NoHash
                /\ imageHash # currentHash ->
             <<TRUE, "Tools configuration changed">>
      [] exists /\ currentHash # NoHash /\ imageHash = currentHash ->
             <<FALSE, "Image up to date">>

C10_DecisionTable ==
    imgCheck.done =>
        <<imgCheck.result.needsRebuild, imgCheck.result.reason>>
            = C10_Expected(imgCheck.exists, imgCheck.imageHash, imgCheck.currentHash)

\* the check found a label that differs from the current hash
C10_Witness ==
    /\ imgCheck.done /\ imgCheck.exists
    /\ imgCheck.currentHash # NoHash /\ imgCheck.imageHash # NoHash
    /\ imgCheck.imageHash # imgCheck.currentHash

C10_WitnessRemoved ==
    imgCheck.done /\ imgCheck.exists /\ imgCheck.currentHash = NoHash
        /\ imgCheck.imageHash # NoHash

C10_WitnessNoTools ==
    imgCheck.done /\ imgCheck.exists /\ imgCheck.currentHash = NoHash
        /\ imgCheck.imageHash = NoHash

C10_WitnessMissingLabel ==
    imgCheck.done /\ imgCheck.exists /\ imgCheck.currentHash # NoHash
        /\ imgCheck.imageHash = NoHash

C10_WitnessUpToDate ==
    imgCheck.done /\ imgCheck.exists /\ imgCheck.currentHash # NoHash
        /\ imgCheck.imageHash = imgCheck.currentHash

C10_WitnessAbsent == imgCheck.done /\ ~imgCheck.exists

----------------------------------------------------------------------------
(* C11: after a start or build flow built the image successfully, a        *)
(* following start or build flow without the force flag, with tools.yml     *)
(* unchanged in between, skips the build: whether there is no tools.yml, a  *)
(* tools.yml with tools, or a tools.yml that resolves to no tools.          *)

\* The flow has just consulted the staleness table, the image inspects
\* answered, and the image is the one built for the tools.yml of now
C11_CheckedUnchanged ==
    /\ cmd \in {"start", "build"}
    /\ imgCheck.done /\ LastCall.op = "checkImageStatus"
    /\ builtCfg = toolsCfg
    /\ imgCheck.exists /\ imgCheck.imageHash = image.label

C11_UnchangedConfigSkipsBuild ==
    C11_CheckedUnchanged => ~imgCheck.result.needsRebuild

----------------------------------------------------------------------------
(* C12: in the start and build flows an image build is invoked exactly when *)
(* the force flag is set or checkImageStatus reports needsRebuild; with the *)
(* force flag the staleness table is not consulted, and when no rebuild is  *)
(* needed no build is invoked and start goes on to compose up.              *)

C12_Force == IF cmd = "start" THEN opts.build ELSE opts.force

\* The flow is past its build decision and its build step
C12_PastBuild ==
    IF cmd = "start"
    THEN HasCall("updateEnvValue", "ok") /\ pc \notin {"build", "buildRun"}
    ELSE HasCall("checkPrerequisites", "ok") /\ pc \notin {"buildCheck", "buildOnly"}

C12_Built == \E op \in BuildOps : HasOp(op)

C12_NextAfterSkip(i) ==
    IF cmd = "start"
    THEN IF i < Len(calls) THEN calls[i + 1].op = "up" ELSE pc = "up"
    ELSE i = Len(calls) /\ Ended /\ exitCode = 0

C12_BuildIffForcedOrStale ==
    cmd \in {"start", "build"} =>
        /\ C12_Built => (C12_Force \/ HasCall("checkImageStatus", "rebuild"))
        /\ C12_Force => ~HasOp("checkImageStatus")
        /\ HasOp("checkImageStatus") =>
              /\ imgCheck.done
              /\ HasCall("checkImageStatus", "rebuild") <=> imgCheck.result.needsRebuild
        /\ \A i \in DOMAIN calls :
              (calls[i].op = "checkImageStatus" /\ calls[i].res = "skip")
                  => ~C12_Built /\ C12_NextAfterSkip(i)
        /\ C12_PastBuild =>
              (C12_Built <=> (C12_Force \/ HasCall("checkImageStatus", "rebuild")))

\* a start flow that skipped the build and went on to compose up
C12_Witness ==
    /\ cmd = "start" /\ Ended /\ outcome = "success"
    /\ HasCall("checkImageStatus", "skip") /\ HasCall("up", "ok")

\* a forced build flow
C12_WitnessForce == cmd = "build" /\ Ended /\ opts.force /\ HasCall("build", "ok")

\* a build flow that found the image up to date
C12_WitnessBuildSkip == cmd = "build" /\ Ended /\ outcome = "upToDate"

----------------------------------------------------------------------------
(* C13: whenever a start or build flow that invoked buildWithTools has      *)
(* finished, the generated Dockerfile no longer exists in the config        *)
(* directory.                                                               *)

C13_DockerfileDeletedAfterBuild ==
    (cmd \in {"start", "build"} /\ Ended /\ HasCall("buildWithTools", "ok"))
        => ~customDockerfile

----------------------------------------------------------------------------
(* C19: the restart flow leaves the state and its file untouched and never  *)
(* starts or stops a tunnel process: on every path (success, teardown       *)
(* failure, compose-up failure, health-gate failure) isRunning, ngrokPid,   *)
(* tunnelUrl, startedAt and dockerDir are after the flow what they were     *)
(* before it.                                                               *)

C19_Untouched ==
    cmd = "restart" =>
        /\ state = entryState
        /\ ~HasOp("tunnel.start") /\ ~HasOp("tunnel.stop")
        /\ ~HasOp("setRunning") /\ ~HasOp("setStopped")

C19_Frame ==
    (cmd = "restart" /\ pc # "idle") => UNCHANGED <<state, stateFile, procs, spawned>>

C19_RestartKeepsState == []C19_Untouched /\ [][C19_Frame]_vars

\* a restart whose compose up failed after a failed teardown
C19_Witness ==
    /\ cmd = "restart" /\ Ended /\ exitCode = 1
    /\ HasCall("down", "throws") /\ HasCall("up", "throws")
    /\ state.isRunning /\ stateFile = JsonFile(state)

\* a restart that succeeded past a failed health gate
C19_WitnessHealth ==
    /\ cmd = "restart" /\ Ended /\ exitCode = 0
    /\ HasCall("waitForHealthy", "unhealthy") /\ state.isRunning

----------------------------------------------------------------------------
(* C20: when the container engine, the compose plugin or the tunnel binary  *)
(* is unavailable, the start flow and the build flow end with exit code 1   *)
(* at preflight: the state is neither consulted nor changed, no tunnel is   *)
(* started, and the env file, the image and the container are not touched.  *)

C20_Missing ==
    cmd \in {"start", "build"} /\ HasCall("checkPrerequisites", "missing")

C20_AbortsAtPreflight ==
    C20_Missing =>
        /\ Ended /\ exitCode = 1
        /\ Len(calls) = 1
        /\ state = entryState
        /\ ngrokPid = NoPid /\ tunnelUrl = NoUrl /\ ~imgCheck.done

C20_Frame ==
    (pc \in {"prereq", "buildPrereq"} /\ pc' = "idle")
        => UNCHANGED <<state, stateFile, procs, spawned, envFile, image,
                       customDockerfile, containerUp>>

C20_PreflightAbort == []C20_AbortsAtPreflight /\ [][C20_Frame]_vars

\* a start flow that met a running state and stopped at preflight
C20_Witness ==
    /\ cmd = "start" /\ Ended /\ HasCall("checkPrerequisites", "missing")
    /\ entryState.isRunning

C20_WitnessBuild == cmd = "build" /\ Ended /\ HasCall("checkPrerequisites", "missing")

----------------------------------------------------------------------------
(* C14: waitForHealthy raises an error at once, without another poll and    *)
(* without a success result, on the first poll whose status reports the     *)
(* container not running or health unhealthy, whatever the other of the two *)
(* values is in that poll.                                                  *)

C14_PolledFailure ==
    /\ call.fn = "waitForHealthy" /\ call.polls > 0
    /\ ~call.status.running \/ call.status.health = "unhealthy"

C14_FailsAtOnce ==
    C14_PolledFailure =>
        /\ call.at = "done"
        /\ call.result \in {"stopped", "unhealthy"}

----------------------------------------------------------------------------
(* C15: waitForHealthy always terminates: it returns success at the first   *)
(* poll that reports health healthy; while the polls report a running       *)
(* container with health starting or none it sleeps the delay between polls *)
(* and fails with the timeout error once the elapsed time has reached the   *)
(* timeout; with a timeout of zero it fails so without polling.             *)

C15_Waiting(status) == status.running /\ status.health \in {"starting", "none"}

C15_Loop ==
    call.fn = "waitForHealthy" =>
        /\ (call.polls > 0 /\ call.status.health = "healthy")
              => (call.at = "done" /\ call.result = "ok")
        /\ call.result = "ok" => (call.polls > 0 /\ call.status.health = "healthy")
        /\ call.at = "done" <=> call.result # "pending"
        /\ call.at = "poll" => (call.elapsed < call.timeout /\ call.sleeps = call.polls)
        /\ call.at = "sleep" =>
              (call.sleeps = call.polls - 1 /\ C15_Waiting(call.status))
        /\ call.at = "while" => call.sleeps = call.polls
        /\ call.elapsed >= call.sleeps * call.delay
        /\ call.polls > 0 => (call.polls - 1) * call.delay < call.timeout
        /\ call.result = "timeout" =>
              /\ call.elapsed >= call.timeout
              /\ call.sleeps = call.polls
              /\ call.polls > 0 => C15_Waiting(call.status)
        /\ call.timeout = 0 => call.polls = 0

C15_Terminates == []C15_Loop /\ <>(call.at = "done")

\* the timeout error after several polls of a starting container
C15_Witness ==
    /\ call.fn = "waitForHealthy" /\ call.result = "timeout"
    /\ call.polls >= 2 /\ call.sleeps = call.polls

\* success after a sleep
C15_WitnessHealthy ==
    call.fn = "waitForHealthy" /\ call.result = "ok" /\ call.sleeps >= 1

\* the timeout error without a poll
C15_WitnessZero ==
    call.fn = "waitForHealthy" /\ call.result = "timeout" /\ call.timeout = 0

----------------------------------------------------------------------------
(* C16 *)

C16_InWait == call.fn = "waitForUrl"

\* The queries issued so far, one answer each
C16_Queries == Len(call.answers)

C16_AllNull(n) == \A j \in 1..n : call.answers[j] = NoUrl

\* C16: for every maxRetries n and every sequence of tunnel-API answers,
\* waitForUrl issues at most n queries; it ends either by returning the URL
\* of the first query that gave one, having issued exactly that many
\* queries, or with the timeout error after exactly n queries without a URL
C16_AtMostNQueries ==
    C16_InWait =>
      /\ C16_Queries <= call.maxRetries
      /\ \A j \in 1..C16_Queries :
            call.answers[j] # NoUrl =>
              /\ j = C16_Queries
              /\ call.at = "done" /\ call.result = "ok"
              /\ call.url = call.answers[j]
      /\ call.at = "done" => call.result \in {"ok", "timeout"}
      /\ call.result = "ok" =>
            /\ C16_Queries >= 1
            /\ call.answers[C16_Queries] # NoUrl
            /\ C16_AllNull(C16_Queries - 1)
      /\ call.result = "timeout" =>
            /\ C16_Queries = call.maxRetries
            /\ C16_AllNull(C16_Queries)

\* Three retries, three answers without a URL, the timeout error
C16_Witness ==
    /\ C16_InWait /\ call.maxRetries = 3
    /\ call.result = "timeout" /\ C16_Queries = 3

\* The URL comes with the second of four allowed queries
C16_WitnessSecond ==
    /\ C16_InWait /\ call.maxRetries = 4
    /\ call.result = "ok" /\ C16_Queries = 2

\* No retry allowed: the timeout error without a query
C16_WitnessZero ==
    /\ C16_InWait /\ call.maxRetries = 0
    /\ call.result = "timeout" /\ C16_Queries = 0

----------------------------------------------------------------------------
(* C17 *)

C17_Done == call.fn = "getUrl" /\ call.at = "done"

C17_Https(tunnels) == {i \in DOMAIN tunnels : tunnels[i].proto = "https"}

\* C17: getUrl returns the public URL of an https tunnel whenever the
\* response lists one, whatever its position; otherwise the public URL of
\* the first listed tunnel; and null when the list is empty, the response is
\* not OK, or the query fails
C17_PrefersHttps ==
    C17_Done =>
      LET tunnels == call.input.tunnels
          listed == call.input.kind = "ok"
      IN /\ ~call.out.raised
         /\ (listed /\ C17_Https(tunnels) # {}) =>
               \E i \in C17_Https(tunnels) :
                  call.out.value = tunnels[i].public_url
         /\ (listed /\ C17_Https(tunnels) = {} /\ Len(tunnels) > 0) =>
               call.out.value = tunnels[1].public_url
         /\ (listed /\ Len(tunnels) = 0) => call.out.value = NoUrl
         /\ call.input.kind \in {"notOk", "fetchFails"} => call.out.value = NoUrl

\* The only https tunnel is listed last, after tunnels with another URL
C17_Witness ==
    /\ C17_Done /\ call.input.kind = "ok"
    /\ Len(call.input.tunnels) = 3
    /\ C17_Https(call.input.tunnels) = {3}
    /\ call.input.tunnels[1].public_url # call.input.tunnels[3].public_url
    /\ call.out.value = call.input.tunnels[3].public_url

\* No https tunnel: the first one's URL
C17_WitnessFirst ==
    /\ C17_Done /\ call.input.kind = "ok"
    /\ Len(call.input.tunnels) = 2
    /\ C17_Https(call.input.tunnels) = {}
    /\ call.input.tunnels[1].public_url # call.input.tunnels[2].public_url
    /\ call.out.value = call.input.tunnels[1].public_url

\* The fetch is rejected: null
C17_WitnessFails ==
    /\ C17_Done /\ call.input.kind = "fetchFails"
    /\ call.out.value = NoUrl

----------------------------------------------------------------------------
(* C18 *)

C18_Done == call.fn \in Queries /\ call.at = "done"

C18_TunnelFailure == call.input.kind \in {"fetchFails", "notOk", "badJson", "noList"}

C18_InspectFailure ==
    call.input.kind \in {"commandFails", "unparseable", "emptyArray", "malformed"}

\* C18: the status queries never raise; when the inspect command or the
\* tunnel-API query fails (command error, non-OK response, unparseable or
\* empty payload), DockerService.getStatus returns {running: false, health:
\* none}, TunnelService.getUrl returns null, getStatus and isRunning report
\* not running
C18_NeverRaises ==
    C18_Done =>
      /\ ~call.out.raised
      /\ (call.fn = "docker.getStatus" /\ C18_InspectFailure) =>
            call.out.value = [running |-> FALSE, health |-> "none"]
      /\ (call.fn = "getUrl" /\ C18_TunnelFailure) => call.out.value = NoUrl
      /\ (call.fn = "tunnel.getStatus" /\ C18_TunnelFailure) =>
            /\ ~call.out.value.isRunning
            /\ call.out.value.url = NoUrl
      /\ (call.fn = "tunnel.isRunning" /\ C18_TunnelFailure) =>
            call.out.value = FALSE

\* docker inspect fails for a container that does not exist
C18_Witness ==
    /\ C18_Done /\ call.fn = "docker.getStatus"
    /\ call.input.kind = "commandFails"
    /\ call.out = Return([running |-> FALSE, health |-> "none"])

\* The tunnel API answers with something that is not JSON
C18_WitnessTunnel ==
    /\ C18_Done /\ call.fn = "tunnel.isRunning"
    /\ call.input.kind = "badJson"
    /\ call.out = Return(FALSE)

\* The tunnel API cannot be reached
C18_WitnessStatus ==
    /\ C18_Done /\ call.fn = "tunnel.getStatus"
    /\ call.input.kind = "fetchFails"
    /\ ~call.out.raised /\ ~call.out.value.isRunning

----------------------------------------------------------------------------
(* C21: when no environment file exists, the start flow ends at the env     *)
(* file check with exit code 1: a tunnel is started, an image built or      *)
(* compose up issued only after the check found the file, the state is not  *)
(* marked running, and the step that aborts touches neither the tunnel      *)
(* processes nor the image nor the container.                               *)

C21_NoEnvFile == cmd = "start" /\ HasCall("hasEnvFile", "no")

C21_Aborts ==
    /\ C21_NoEnvFile =>
          /\ Ended /\ exitCode = 1 /\ LastCall.op = "hasEnvFile"
          /\ ~state.isRunning
          /\ ngrokPid = NoPid
    /\ (cmd = "start" /\ \E op \in {"tunnel.start", "up"} \cup BuildOps : HasOp(op))
          => HasCall("hasEnvFile", "yes")

C21_Frame ==
    (pc = "envCheck" /\ pc' = "idle")
        => UNCHANGED <<state, stateFile, procs, spawned, image, containerUp>>

C21_AbortsBeforeTunnel == []C21_Aborts /\ [][C21_Frame]_vars

\* the flow found no env file and ended
C21_Witness == C21_NoEnvFile /\ Ended /\ ~entryState.isRunning

----------------------------------------------------------------------------
(* C22: after update, setRunning, setStopped or reset, when the write of    *)
(* the state file succeeded, a state service constructed from the file      *)
(* observes the isRunning, ngrokPid, tunnelUrl, startedAt and dockerDir of   *)
(* the service that wrote it, and the fields setStopped cleared are absent   *)
(* from the file.                                                            *)

C22_Mutators == {"update", "setRunning", "setStopped", "reset"}

C22_Fields == {"isRunning", "ngrokPid", "tunnelUrl", "startedAt", "dockerDir"}

\* The step is a mutator call whose writeFileSync put the new text in place
C22_Written ==
    /\ cmd = "service" /\ calls' # calls
    /\ calls'[Len(calls')].op \in C22_Mutators
    /\ stateFile'.kind = "json"
    /\ stateFile'.data = stringify(state')

C22_Reloaded ==
    /\ \A k \in C22_Fields : load(stateFile')[k] = state'[k]
    /\ calls'[Len(calls')].op = "setStopped" =>
          /\ DOMAIN stateFile'.data \cap (C22_Fields \ {"isRunning"}) = {}
          /\ ~load(stateFile').isRunning

C22_WitnessStopped ==
    /\ cmd = "service" /\ LastCall.op = "setStopped" /\ Len(calls) = 2
    /\ entryState.isRunning /\ entryState.ngrokPid # NoPid
    /\ stateFile.kind = "json" /\ DOMAIN stateFile.data = {"version", "isRunning"}

----------------------------------------------------------------------------
(* C23: setStopped is idempotent: from any state, a second setStopped right *)
(* after the first leaves the in-memory state as the first left it, and the *)
(* state file too when both writes succeed; after each of them isRunning is *)
(* false and ngrokPid, tunnelUrl, startedAt and dockerDir are absent, in     *)
(* memory and in the file just written.                                      *)

C23_Cleared(s) ==
    /\ ~s.isRunning
    /\ s.ngrokPid = NoPid /\ s.tunnelUrl = NoUrl
    /\ s.startedAt = NoTime /\ s.dockerDir = NoDir

\* a setStopped step right after a setStopped
C23_Again ==
    /\ cmd = "service" /\ LastCall.op = "setStopped"
    /\ calls' # calls /\ calls'[Len(calls')].op = "setStopped"

C23_SameAsOnce ==
    /\ state' = state
    /\ (stateFile = JsonFile(state) /\ stateFile' = JsonFile(state'))
          => stateFile' = stateFile

C23_AfterStopped ==
    (cmd = "service" /\ LastCall.op = "setStopped") =>
        /\ C23_Cleared(state)
        /\ state = setStopped(entryState)
        /\ stateFile = JsonFile(state) =>
              /\ C23_Cleared(load(stateFile))
              /\ DOMAIN stateFile.data \subseteq {"version", "isRunning"}

----------------------------------------------------------------------------
(* C24: constructing the state service over a state file that is missing or *)
(* does not parse never fails and yields the default state, isRunning false  *)
(* without pid, URL, timestamp or docker directory, the same in both cases.  *)

C24_NoUsableFile ==
    /\ cmd = "service" /\ Len(calls) = 1
    /\ calls[1].op = "construct" /\ calls[1].res \in {"absent", "corrupt"}

C24_DefaultState ==
    C24_NoUsableFile =>
        /\ pc = "service"
        /\ state = getDefaultState
        /\ ~state.isRunning
        /\ state.ngrokPid = NoPid /\ state.tunnelUrl = NoUrl
        /\ state.startedAt = NoTime /\ state.dockerDir = NoDir

\* constructed over a file that does not parse
C24_Witness ==
    /\ C24_NoUsableFile /\ calls[1].res = "corrupt"
    /\ stateFile = CorruptFile /\ pc = "service"

\* constructed without a file
C24_WitnessAbsent ==
    /\ C24_NoUsableFile /\ calls[1].res = "absent"
    /\ stateFile = AbsentFile /\ pc = "service"

----------------------------------------------------------------------------
(* C25: for every environment config and every template, writing the config *)
(* with writeEnvFile and reading the file back with readEnvFile gives, for   *)
(* every key with a non-empty value in the config, that value.               *)

C25_RoundTrip ==
    (call.fn = "writeEnvFile" /\ call.at = "done") =>
        \A k \in EnvKeys :
            Len(call.config[k]) > 0 => call.read[k] = call.config[k]

----------------------------------------------------------------------------
(* C26: updateEnvValue(key, value) sets key to value in the env file and    *)
(* leaves every other key that had a non-empty value in the env file        *)
(* readable with the same value.                                             *)

C26_SetsAndKeeps ==
    (call.fn = "updateEnvValue" /\ call.at = "done") =>
        /\ call.read[call.key] = call.value
        /\ \A k \in EnvKeys \ {call.key} :
              Len(call.before[k]) > 0 => call.read[k] = call.before[k]

----------------------------------------------------------------------------
(* C27: resolveConfig yields, for each of the apt, npm, pip and cargo       *)
(* lists, every package of a known listed preset or of the user exactly     *)
(* once; the commands are the commands of the listed presets in preset      *)
(* order followed by the user's commands, repetitions kept; an unknown      *)
(* preset name contributes nothing.                                          *)

C27_Known(config) == {i \in DOMAIN config.presets : config.presets[i] \in DOMAIN TOOL_PRESETS}

\* The packages the known listed presets and the user contribute to a list
C27_Contributed(config, f) ==
    {config[f][i] : i \in DOMAIN config[f]} \cup
    UNION {{TOOL_PRESETS[config.presets[i]][f][j] :
              j \in DOMAIN TOOL_PRESETS[config.presets[i]][f]} :
           i \in C27_Known(config)}

\* How often c occurs in list
C27_Count(list, c) == Cardinality({i \in DOMAIN list : list[i] = c})

\* Where the commands of the i-th listed preset start: after the commands of
\* the known presets listed before it
RECURSIVE C27_Offset(_, _)
C27_Offset(config, i) ==
    IF i = 1 THEN 0
    ELSE C27_Offset(config, i - 1) +
         (IF i - 1 \in C27_Known(config)
          THEN Len(TOOL_PRESETS[config.presets[i - 1]].commands) ELSE 0)

C27_InOrder(config, resolved) ==
    LET n == Len(resolved.commands)
        u == Len(config.commands)
        p == C27_Offset(config, Len(config.presets) + 1)
    IN /\ n = p + u
       /\ SubSeq(resolved.commands, p + 1, n) = config.commands
       /\ \A i \in C27_Known(config) :
             LET cs == TOOL_PRESETS[config.presets[i]].commands
             IN SubSeq(resolved.commands, C27_Offset(config, i) + 1,
                       C27_Offset(config, i) + Len(cs)) = cs

C27_Resolved ==
    (call.fn = "resolveConfig" /\ call.at = "done") =>
        /\ \A f \in PackageLists :
              /\ {call.resolved[f][i] : i \in DOMAIN call.resolved[f]}
                    = C27_Contributed(call.config, f)
              /\ \A i, j \in DOMAIN call.resolved[f] :
                    call.resolved[f][i] = call.resolved[f][j] => i = j
        /\ C27_InOrder(call.config, call.resolved)
        /\ \A c \in {call.config.commands[i] : i \in DOMAIN call.config.commands} :
              C27_Count(call.resolved.commands, c) >= C27_Count(call.config.commands, c)

\* a package given by a preset and by the user, a command given twice by the
\* user and once by a preset, an unknown preset in the list
C27_Witness ==
    /\ call.fn = "resolveConfig" /\ call.at = "done"
    /\ call.config.presets = <<"nodejs", "python">>
    /\ call.config.apt = <<"python3", "git">>
    /\ call.config.commands = <<"make", "make">>
    /\ call.resolved.apt = <<"python3", "python3-pip", "python3-venv", "git">>
    /\ call.resolved.commands = <<"make", "make">>

\* the preset's command comes first, the user's repetition of it is kept
C27_WitnessRepeat ==
    /\ call.fn = "resolveConfig" /\ call.at = "done"
    /\ call.config.presets = <<"ruby", "ruby">>
    /\ call.config.commands = <<"gem install bundler">>
    /\ Len(call.resolved.commands) = 3
    /\ call.resolved.apt = <<"ruby-full">>

----------------------------------------------------------------------------
(* C28: TunnelService.stop(pid) sends a termination signal to pid and       *)
(* completes normally when the signal is delivered and when the OS reports  *)
(* no such process; every other OS error is propagated to the caller.       *)

C28_Done == call.fn = "tunnel.stop" /\ call.at = "done"

C28_StopOutcome ==
    C28_Done =>
        /\ call.signal = <<call.pid, "SIGTERM">>
        /\ call.kill \in {"ok", "ESRCH"} => ~call.out.raised
        /\ call.kill \notin {"ok", "ESRCH"} =>
              call.out.raised /\ call.out.value = call.kill
        /\ call.kill = "ok" => call.pid \notin call.live

\* the process was gone already: a normal return
C28_Witness == C28_Done /\ call.kill = "ESRCH" /\ ~call.out.raised

\* the signal is refused: the error reaches the caller
C28_WitnessRefused == C28_Done /\ call.kill = "EPERM" /\ call.out.raised

\* the signal is delivered
C28_WitnessDelivered ==
    C28_Done /\ call.kill = "ok" /\ ~call.out.raised /\ call.live # {}

----------------------------------------------------------------------------
(* C29: forced rebuilds and the no-cache flag *)

\* The rebuild is forced: start with the build flag, or build with the force
\* flag
C29_Forced == (cmd = "start" /\ opts.build) \/ (cmd = "build" /\ opts.force)

\* The image build calls the running flow has issued
C29_Builds == {i \in DOMAIN calls : calls[i].op \in BuildOps}

\* C29: whenever a rebuild is forced (start with the build flag, or build with
\* the force flag), every image build invocation issued by that flow carries
\* the no-cache flag
C29_ForcedNoCache ==
    C29_Forced => \A i \in C29_Builds : calls[i].arg = TRUE

\* The half the code keeps: the builds of build --force carry the flag, and
\* the builds of an unforced build do not
C29_BuildForceNoCache ==
    cmd = "build" => \A i \in C29_Builds : calls[i].arg = opts.force

\* The start flow never passes the flag, forced or not
C29_StartNeverNoCache ==
    cmd = "start" => \A i \in C29_Builds : calls[i].arg = FALSE

----------------------------------------------------------------------------
(* C30: the command line dispatches every documented subcommand *)

\* The subcommand name the last command line gave
C30_Argv == call.argv

\* A command line has been parsed
C30_Parsed == call.fn = "parseAsync"

\* C30: each of the subcommands init, start, stop, restart, status, logs,
\* shell, auth, add-repo, tools and build is dispatched to its command flow:
\* after a command line naming one of them the flow of that name is the one
\* that runs, and it is not refused with exit code 1 as an unknown command
C30_DispatchesAll ==
    C30_Parsed =>
        /\ cmd = C30_Argv
        /\ outcome # "unknownCommand"

\* What the code does for the registered subcommands: each runs the flow of
\* its name
C30_DispatchesRegistered ==
    (C30_Parsed /\ C30_Argv \in Registered) =>
        cmd = C30_Argv /\ outcome # "unknownCommand"

\* What the code does for restart: no flow runs and the process ends with
\* exit code 1
C30_RestartUnknown ==
    (C30_Parsed /\ C30_Argv = "restart") =>
        /\ cmd = NoCommand /\ pc = "idle"
        /\ exitCode = 1 /\ outcome = "unknownCommand"
        /\ calls = <<>>

----------------------------------------------------------------------------
(* C31: following the container logs at the end of start *)

\* Position of the first call of an operation in the call log (0: none)
C31_First(op) ==
    IF HasOp(op) THEN CHOOSE i \in DOMAIN calls :
                          /\ calls[i].op = op
                          /\ \A j \in 1..(i - 1) : calls[j].op # op
    ELSE 0

\* The flow follows the logs, or has followed them
C31_Follows == pc = "logs" \/ HasOp("logs")

\* Logs are followed only in a start flow without the detach flag, after
\* setRunning, with the state running
C31_OnlyAfterCommit ==
    C31_Follows =>
        /\ cmd = "start" /\ ~opts.detach
        /\ HasCall("setRunning", "ok")
        /\ HasOp("logs") => C31_First("setRunning") < C31_First("logs")
        /\ state.isRunning /\ state.ngrokPid = ngrokPid

\* With the detach flag no log call is made
C31_DetachSkips == (cmd = "start" /\ opts.detach) => ~C31_Follows

\* After the log stream returned or was interrupted the flow has ended
\* normally, without stopping the tunnel or taking the container down
C31_EndsNormally ==
    HasOp("logs") =>
        /\ Ended /\ exitCode = 0 /\ outcome = "success"
        /\ LastCall.op = "logs"
        /\ ~HasOp("tunnel.stop") /\ ~HasOp("down")
        /\ ngrokPid \in procs

\* The step that follows the logs changes neither the state, the state file,
\* the processes nor the container
C31_LogStep ==
    pc = "logs" => UNCHANGED <<state, stateFile, procs, containerUp>>

\* C31: in the start flow the container logs are followed only after the
\* state was set running and only without the detach flag; a log stream that
\* returns or is interrupted ends the flow with exit code 0, the state still
\* running, the tunnel not stopped and the container not taken down
C31_LogsAfterCommit ==
    /\ [](C31_OnlyAfterCommit /\ C31_DetachSkips /\ C31_EndsNormally)
    /\ [][C31_LogStep]_vars

\* A start flow whose log stream was interrupted has ended
C31_Witness ==
    /\ cmd = "start" /\ Ended /\ HasCall("logs", "interrupted")
    /\ state.isRunning /\ ngrokPid \in procs /\ containerUp

\* A detached start has ended without following the logs
C31_WitnessDetach ==
    cmd = "start" /\ Ended /\ opts.detach /\ outcome = "success" /\ ~HasOp("logs")

----------------------------------------------------------------------------
(* C32: buildWithTools or the plain compose build *)

\* A tools configuration could be read from the file
C32_Readable(file) == file.kind = "yaml"

\* The presets of the config that TOOL_PRESETS knows
C32_KnownPresets(config) ==
    {config.presets[i] : i \in DOMAIN config.presets} \cap DOMAIN TOOL_PRESETS

\* The config asks for something: a package or a command, given by the user
\* or by a known preset, or a custom Dockerfile path
C32_AsksForTools(config) ==
    \/ \E f \in PackageLists \cup {"commands"} :
          \/ config[f] # <<>>
          \/ \E p \in C32_KnownPresets(config) : TOOL_PRESETS[p][f] # <<>>
    \/ config.customDockerfile # NoPath

\* C32: when a build is performed, buildWithTools is used if and only if a
\* tools configuration could be read and its resolved config has tools (a
\* non-empty package list, a command, or a custom Dockerfile path); in every
\* other case the plain compose build is used
C32_BuildWithToolsIffTools ==
    (call.fn = "buildCall" /\ call.at = "done") =>
        /\ call.used \in BuildOps
        /\ call.used = "buildWithTools" <=>
              (C32_Readable(call.file) /\ C32_AsksForTools(call.file.config))

\* The same in the start and build flows: every build call they make is the
\* one the tools.yml of the invocation calls for
C32_FlowsUseBuildCall ==
    \A i \in DOMAIN calls :
       calls[i].op \in BuildOps =>
          calls[i].op = buildCall(readConfig(ToolsFileOf(toolsCfg)))

\* A config with only a command: buildWithTools
C32_Witness ==
    /\ call.fn = "buildCall" /\ call.at = "done"
    /\ call.file.kind = "yaml"
    /\ call.file.config = [EmptyToolConfig EXCEPT !.commands = <<"make">>]
    /\ call.used = "buildWithTools"

\* A readable config that names only an unknown preset: the plain build
C32_WitnessNoTools ==
    /\ call.fn = "buildCall" /\ call.at = "done"
    /\ call.file.kind = "yaml" /\ call.file.config.presets = <<"nodejs">>
    /\ call.used = "build"

\* A file that cannot be parsed: the plain build
C32_WitnessCorrupt ==
    call.fn = "buildCall" /\ call.at = "done" /\ call.file.kind = "corrupt"
    /\ call.used = "build"

\* Only a custom Dockerfile path: buildWithTools
C32_WitnessCustom ==
    /\ call.fn = "buildCall" /\ call.at = "done"
    /\ call.file.config = [EmptyToolConfig EXCEPT !.customDockerfile = "Dockerfile.dev"]
    /\ call.used = "buildWithTools"

----------------------------------------------------------------------------
(* C33: the steps of buildWithTools *)

C33_Order == <<"composeBuild", "tag", "write", "finalBuild">>

C33_Returned == call.fn = "buildWithTools" /\ call.at = "done"

C33_Threw == call.fn = "buildWithTools" /\ call.at = "threw"

\* The first failing step of a call that has ended, 0 when none failed
C33_FailAt == IF C33_Threw THEN Len(call.steps) ELSE 0

\* The steps run so far are the first steps of the order, every one but the
\* last succeeded, and the call threw exactly when the last one failed
C33_InOrder ==
    /\ Len(call.steps) <= Len(C33_Order)
    /\ \A i \in DOMAIN call.steps :
          /\ call.steps[i].step = C33_Order[i]
          /\ i < Len(call.steps) => call.steps[i].ok
    /\ C33_Threw <=> (call.steps # <<>> /\ ~call.steps[Len(call.steps)].ok)
    /\ C33_Returned <=> (Len(call.steps) = Len(C33_Order)
                          /\ call.steps[Len(call.steps)].ok)

\* The final build is given the label with the value of toolsHash exactly
\* when toolsHash is present
C33_Label ==
    \A i \in DOMAIN call.steps :
       call.steps[i].step = "finalBuild" =>
          IF call.toolsHash # NoHash
          THEN call.steps[i].args = <<"--label", call.toolsHash>>
          ELSE call.steps[i].args = <<>>

\* After a call that returned, the staleness check with the same hash asks
\* for no rebuild
C33_UpToDate ==
    C33_Returned =>
        /\ call.latest.exists
        /\ call.latest.label = call.toolsHash
        /\ ~checkImageStatus(call.latest.exists, call.latest.label,
                             call.toolsHash).needsRebuild

\* The image and the Dockerfile a call leaves are those the flows take it to
\* leave
C33_AsInFlows ==
    (C33_Returned \/ C33_Threw) =>
        /\ call.latest = buildWithToolsImage(call.entry.latest, call.toolsHash,
                                             C33_FailAt)
        /\ call.dockerfile = customDockerfileAfter(call.entry.dockerfile, C33_FailAt)

\* C33: buildWithTools runs compose build, tag as base, write of the
\* generated Dockerfile and final build in this order and stops at the first
\* failing step; the final build carries the label with value toolsHash
\* exactly when toolsHash is present, and after a call that returned with
\* hash h checkImageStatus(h) reports that no rebuild is needed
C33_StepsAndLabel ==
    call.fn = "buildWithTools" =>
        C33_InOrder /\ C33_Label /\ C33_UpToDate /\ C33_AsInFlows

\* A call with a hash returned over an image built for another hash
C33_Witness ==
    /\ C33_Returned /\ call.toolsHash = "hashA"
    /\ call.entry.latest.label = "hashB"
    /\ call.latest.label = "hashA"

\* The tag step failed: two steps run, nothing written
C33_WitnessStops ==
    /\ C33_Threw /\ Len(call.steps) = 2
    /\ ~call.entry.dockerfile /\ ~call.dockerfile /\ ~call.base

\* A call without hash returned: no label, and the check asks for no rebuild
C33_WitnessNoHash ==
    C33_Returned /\ call.toolsHash = NoHash /\ call.latest.label = NoHash

----------------------------------------------------------------------------
(* C34: the Dockerfile generateDockerfile emits *)

\* How docker reads the lines: a line that is neither a comment nor blank
\* and does not continue the line before it starts an instruction, which
\* runs on to the first line without continuation backslash
C34_Starts(lines) ==
    {i \in DOMAIN lines :
        /\ lines[i].ins # "#" /\ lines[i] # Blank
        /\ i = 1 \/ ~lines[i - 1].cont}

C34_EndOf(lines, i) ==
    CHOOSE k \in i..Len(lines) :
        /\ ~lines[k].cont
        /\ \A j \in i..(k - 1) : lines[j].cont

RECURSIVE C34_Words(_, _, _)
C34_Words(lines, i, k) ==
    IF i > k THEN <<>> ELSE lines[i].words \o C34_Words(lines, i + 1, k)

\* The instructions of the file, in order
RECURSIVE C34_Instructions(_, _)
C34_Instructions(lines, i) ==
    IF i > Len(lines) THEN <<>>
    ELSE IF i \in C34_Starts(lines)
         THEN <<[ins |-> lines[i].ins,
                 words |-> C34_Words(lines, i, C34_EndOf(lines, i))]>>
              \o C34_Instructions(lines, C34_EndOf(lines, i) + 1)
         ELSE C34_Instructions(lines, i + 1)

\* The RUN instruction expected for a package list, none for an empty list
C34_Block(first, list, last) ==
    IF list = <<>> THEN <<>>
    ELSE <<[ins |-> "RUN", words |-> first \o list \o last]>>

C34_Expected(config) ==
    <<[ins |-> "FROM", words |-> <<BaseImageName>>]>>
    \o C34_Block(<<"apt-get update && apt-get install -y --no-install-recommends">>,
                 config.apt, <<"&& rm -rf /var/lib/apt/lists/*">>)
    \o C34_Block(<<"pip3 install --no-cache-dir">>, config.pip, <<>>)
    \o C34_Block(<<"npm install -g">>, config.npm, <<>>)
    \o C34_Block(<<"cargo install">>, config.cargo, <<>>)
    \o [i \in DOMAIN config.commands |->
           [ins |-> "RUN", words |-> <<config.commands[i]>>]]

C34_NonEmptyLists(config) == {f \in PackageLists : config[f] # <<>>}

C34_Runs(lines) ==
    {i \in DOMAIN C34_Instructions(lines, 1) : C34_Instructions(lines, 1)[i].ins = "RUN"}

\* C34: generateDockerfile emits one FROM line for the base image, then one
\* RUN block per non-empty package list in the order apt, pip, npm, cargo,
\* then one RUN line per command in the order listed; the number of RUN
\* instructions is the number of non-empty package lists plus the number of
\* commands
C34_Dockerfile ==
    (call.fn = "generateDockerfile" /\ call.at = "done") =>
        /\ C34_Instructions(call.lines, 1) = C34_Expected(call.config)
        /\ Cardinality(C34_Runs(call.lines))
              = Cardinality(C34_NonEmptyLists(call.config)) + Len(call.config.commands)
        /\ Cardinality({i \in DOMAIN call.lines : call.lines[i].ins = "FROM"}) = 1

\* Every list given, a command given twice
C34_Witness ==
    /\ call.fn = "generateDockerfile" /\ call.at = "done"
    /\ call.config.apt = <<"vim", "git">> /\ call.config.pip = <<"pytest">>
    /\ call.config.npm = <<"typescript">> /\ call.config.cargo = <<"ripgrep">>
    /\ call.config.commands = <<"make", "make">>
    /\ Cardinality(C34_Runs(call.lines)) = 6

\* Nothing given: the FROM line alone
C34_WitnessEmpty ==
    /\ call.fn = "generateDockerfile" /\ call.at = "done"
    /\ \A f \in PackageLists \cup {"commands"} : call.config[f] = <<>>
    /\ C34_Runs(call.lines) = {}
    /\ Len(call.lines) = 4

----------------------------------------------------------------------------
(* C35: no tunnel process is orphaned *)

\* The tunnel processes the tool has started that have not been sent a
\* termination signal
C35_Unsignalled == procs

\* C35: whenever a start, stop or restart flow has finished, normally or by
\* aborting, every tunnel process the tool started and has not signalled is
\* the one whose pid the state records as ngrokPid
C35_NoOrphanTunnel ==
    (Ended /\ cmd \in {"start", "stop", "restart"}) =>
        \A p \in C35_Unsignalled : p = state.ngrokPid

\* What the stop flow does keep: the process recorded when it began is
\* signalled
C35_StopSignalsRecorded ==
    (Ended /\ cmd = "stop" /\ entryState.ngrokPid # NoPid) =>
        entryState.ngrokPid \notin C35_Unsignalled

----------------------------------------------------------------------------
(* C36: the recorded tunnel URL and the recorded tunnel process *)

\* The start flow has set the state running
C36_Recorded == cmd = "start" /\ HasCall("setRunning", "ok")

\* C36: whenever the start flow sets the state running, the tunnelUrl it
\* records is a public URL of the tunnel process whose pid it records as
\* ngrokPid, the process started in this invocation, also when a tunnel
\* process left over from an earlier invocation still answers the local API
C36_UrlOfRecordedTunnel ==
    C36_Recorded =>
        /\ state.ngrokPid = StartedPid
        /\ state.tunnelUrl = UrlOf(state.ngrokPid)

\* What the code keeps: the recorded pid is the one started in this
\* invocation, and with no other tunnel process alive the URL is its URL
C36_UrlWithoutLeftover ==
    C36_Recorded =>
        /\ state.ngrokPid = StartedPid
        /\ procs \subseteq {state.ngrokPid} => state.tunnelUrl = UrlOf(state.ngrokPid)

----------------------------------------------------------------------------
(* C37: the base URL of the env file and the recorded tunnel URL *)

\* C37: whenever the state has isRunning=true at the end of a start or
\* restart flow, the CYRUS_BASE_URL value of the env file equals the
\* recorded tunnelUrl
C37_EnvUrlIsRecordedUrl ==
    (Ended /\ cmd \in {"start", "restart"} /\ state.isRunning) =>
        /\ envFile.exists
        /\ envFile.CYRUS_BASE_URL = state.tunnelUrl


\* What the code keeps: a start flow that itself set the state running
\* wrote the same URL to the env file
C37_StartWritesBoth ==
    (Ended /\ cmd = "start" /\ HasCall("setRunning", "ok")) =>
        envFile.CYRUS_BASE_URL = state.tunnelUrl

----------------------------------------------------------------------------
(* C38: the state file after a successful start *)

\* The start flow has reached its success report
C38_Reported == cmd = "start" /\ HasCall("setRunning", "ok")

\* What a later invocation would load from the file
C38_OnDisk == load(stateFile)

\* C38: whenever a start flow reaches its success report, the state file
\* records isRunning=true with the ngrokPid and tunnelUrl of this invocation,
\* whatever the outcome of the state-file write
C38_FileSaysRunning ==
    C38_Reported =>
        /\ C38_OnDisk.isRunning
        /\ C38_OnDisk.ngrokPid = ngrokPid
        /\ C38_OnDisk.tunnelUrl = tunnelUrl

\* What the code keeps: the state in memory is running with this
\* invocation's pid and URL, and so is the file when the write succeeded
C38_MemorySaysRunning ==
    C38_Reported =>
        /\ state.isRunning /\ state.ngrokPid = ngrokPid /\ state.tunnelUrl = tunnelUrl
        /\ stateFile = JsonFile(state) => C38_OnDisk = state

----------------------------------------------------------------------------
(* C39: the state after a restart whose compose up failed *)

\* A compose up succeeded in this flow after its teardown
C39_UpAfterDown ==
    \E i, j \in DOMAIN calls :
       /\ calls[i].op = "down" /\ calls[j].op = "up" /\ calls[j].res = "ok"
       /\ i < j

\* C39: at the end of every restart flow, if the state has isRunning=true
\* then a compose up succeeded in that flow after its teardown
C39_RunningOnlyAfterUp ==
    (Ended /\ cmd = "restart" /\ state.isRunning) => C39_UpAfterDown

\* What the code keeps: a restart flow that ends with exit code 0 brought the
\* container up after the teardown
C39_SuccessAfterUp ==
    (Ended /\ cmd = "restart" /\ exitCode = 0) => C39_UpAfterDown

----------------------------------------------------------------------------
(* C40: logs, shell, auth and add-repo check the live container status *)

C40_ContainerOps == {"logs", "shell", "exec"}

\* The live status query of this flow reported the container not running
C40_ReportedDown == HasCall("getStatus", "notRunning")

\* C40: the logs, shell, auth and add-repo commands never issue a container
\* exec or log operation when the live container status query reports the
\* container not running; they exit with status 1 instead, whatever the
\* isRunning flag of the state says
C40_NoExecWhenDown ==
    cmd \in ContainerCommands =>
        /\ C40_ReportedDown =>
              /\ Ended /\ exitCode = 1
              /\ \A i \in DOMAIN calls : calls[i].op \notin C40_ContainerOps
        /\ \A i \in DOMAIN calls :
              calls[i].op \in C40_ContainerOps =>
                 /\ i = 2
                 /\ calls[1] = Call("getStatus", NoPid, "running")
                 /\ calls[i].op = containerOp(cmd)

\* The state says running, the container is not: the command exits with 1
\* without a container call
C40_Witness ==
    /\ cmd \in ContainerCommands /\ Ended /\ exitCode = 1
    /\ state.isRunning /\ C40_ReportedDown
    /\ Len(calls) = 1

\* The state says not running, the container is: the container call is made
C40_WitnessUp ==
    /\ cmd = "auth" /\ Ended /\ ~state.isRunning
    /\ HasOp("exec")

\* Each of the four commands was refused
C40_WitnessLogs == cmd = "logs" /\ Ended /\ exitCode = 1 /\ C40_ReportedDown

C40_WitnessShell == cmd = "shell" /\ Ended /\ exitCode = 1 /\ C40_ReportedDown

C40_WitnessAddRepo == cmd = "add-repo" /\ Ended /\ exitCode = 1 /\ C40_ReportedDown

====
